---- MODULE Spec2Model ----
(***************************************************************************)
(* State-machine model of the SenVoice SDK (src/senvoice).                 *)
(*                                                                         *)
(*   Spec     the Orchestrator (client.py: SenVoice) with its four         *)
(*            logical services, the lazily built Transports (base.py)      *)
(*            and the ping_all fan-out.                                    *)
(*   SpecTTS  one TTS client (tts.py) with the streaming extension         *)
(*            (streaming.py): synthesize and synthesize_stream.            *)
(*   SpecSTT  one STT client (stt.py): transcribe, and the Wolof-style     *)
(*            call with a sample rate.                                     *)
(*   SpecTransport  one Transport (base.py) used on its own: concurrent    *)
(*            calls, their responses and faults, sessions and close().     *)
(*   SpecScope  the Orchestrator as a scoped resource: calls and           *)
(*            configure_* inside an async with block, then close().        *)
(*   SpecStream  one TTS client on which one synthesis (synthesize or      *)
(*            synthesize_stream, chunk by chunk) runs while pings are in   *)
(*            flight on the same client.                                   *)
(*   SpecReconf  the Orchestrator with calls in flight on its Transports   *)
(*            while configure_* is invoked.                                *)
(*   SpecPingOrder  ping_all with the pings completing in any order and    *)
(*            each endpoint answering for itself.                          *)
(*   SpecPingScenario  ping_all on an Orchestrator with one local and      *)
(*            one managed service.                                         *)
(*                                                                         *)
(* Python strings are sequences of tokens, so that formatting, stripping   *)
(* and concatenation are computed and not assumed.  Python's None is the   *)
(* one-token sequence None, which no string of the model equals.           *)
(***************************************************************************)
EXTENDS Integers, Sequences, FiniteSets, TLC

VARIABLES
    api_key,      \* SenVoice.api_key
    endpoint_id,  \* SenVoice._<svc>_endpoint_id, per service
    endpoint,     \* SenVoice._<svc>_endpoint, per service
    base_url,     \* SenVoice._<svc>_base_url, per service
    needs_auth,   \* SenVoice._<svc>_needs_auth, per service
    client,       \* SenVoice._<svc>_client: 0 for None, else index into built
    built,        \* every Transport object constructed so far, per service
    epoch,        \* history: number of successful configure_<svc> calls
    nconf,        \* history: total number of successful configure_* calls
    pa_pc,        \* ping_all: "idle", "gathering", "returned", "raised"
    pa_names,     \* ping_all: service_names
    pa_tasks,     \* ping_all: tasks (the ping coroutines), in list order
    pa_at_call,   \* history: services that had a base URL when ping_all began
    pa_result,    \* ping_all: the returned mapping
    pa_exc,       \* ping_all: the exception it raised, "" for none
    tts,          \* the TTS client of SpecTTS
    stt,          \* the STT client of SpecSTT
    tr,           \* the Transport of SpecTransport and its calls
    sc,           \* SpecScope: the sessions of the Orchestrator's Transports
    sm,           \* SpecStream: a TTS client, one synthesis and its pings
    rc,           \* SpecReconf: calls in flight across configure_<service>
    po            \* SpecPingOrder: history, the order in which the pings completed

orch_vars == <<api_key, endpoint_id, endpoint, base_url, needs_auth, client,
               built, epoch, nconf, pa_pc, pa_names, pa_tasks, pa_at_call,
               pa_result, pa_exc>>

vars == <<orch_vars, tts, stt, tr, sc, sm, rc, po>>

-----------------------------------------------------------------------------
(* Bounds of the model *)

\* configure_* calls that succeed in one behaviour
MaxConfigure == 1

\* services that the constructor call gives an endpoint or an identifier
MaxGiven == 2

-----------------------------------------------------------------------------
(* Python values *)

None == << "<None>" >>

EmptyStr == << >>

\* bool(x) for an Optional[str]
Truthy(x) == x # None /\ x # EmptyStr

\* the four logical services, in the order ping_all and close visit them
ServiceOrder == << "tts_fr", "tts_wo", "stt_fr", "stt_wo" >>

Services == { ServiceOrder[i] : i \in 1..Len(ServiceOrder) }

\* f"https://{endpoint_id}.api.runpod.ai"
RunpodUrl(id) == << "https://" >> \o id \o << ".api.runpod.ai" >>

\* endpoint or (f"https://{endpoint_id}.api.runpod.ai" if endpoint_id else None)
BuildBaseUrlIdFirst(ep, id) ==
    IF Truthy(id) THEN RunpodUrl(id) ELSE IF Truthy(ep) THEN ep ELSE None

BuildBaseUrl(ep, id) ==
    IF Truthy(ep) THEN ep ELSE IF Truthy(id) THEN RunpodUrl(id) ELSE None

\* bool(endpoint_id and not endpoint)
NeedsAuth(ep, id) == Truthy(id) /\ ~Truthy(ep)

\* str.rstrip('/')
RECURSIVE Rstrip(_)
Rstrip(s) ==
    IF Len(s) > 0 /\ s[Len(s)] = "/" THEN Rstrip(SubSeq(s, 1, Len(s) - 1)) ELSE s

-----------------------------------------------------------------------------
(* Transports: base.py *)

\* timeout: int = 30, of SenVoice.__init__, which hands it to every client
DefaultTimeout == 30

\* BaseClient.__init__ (TTSClient, STTClient): the Authenticated variant.
\* ep is the configuration epoch of the service at construction (history).
NewBaseClient(key, url, ep) ==
    IF ~Truthy(key)
        THEN [exc |-> "AuthenticationError", obj |-> None]
        ELSE [exc |-> "",
              obj |-> [variant |-> "auth", base_url |-> Rstrip(url),
                       api_key |-> key, timeout |-> DefaultTimeout,
                       epoch |-> ep]]

\* LocalClient.__init__ (TTSLocalClient, STTLocalClient): the Unauthenticated variant
NewLocalClient(url, ep) ==
    [exc |-> "",
     obj |-> [variant |-> "local", base_url |-> Rstrip(url),
              api_key |-> None, timeout |-> DefaultTimeout, epoch |-> ep]]

\* self.headers, which _get_session gives to the ClientSession: the headers
\* of every request of the client t
HeadersAlwaysBearer(t) ==
    [ContentType |-> << "application/json" >>,
     Authorization |-> << "Bearer " >> \o t.api_key]

Headers(t) ==
    IF t.variant = "auth"
        THEN [ContentType |-> << "application/json" >>,
              Authorization |-> << "Bearer " >> \o t.api_key]
        ELSE [ContentType |-> << "application/json" >>]

-----------------------------------------------------------------------------
(* Responses of the remote service and their classification *)

NoStatus == 0 - 1

OkPayload == [status |-> << "ok" >>]

\* An answer of the remote end: status st, Content-Type ct, and a body with
\* raw text tx that is a JSON object ("object"), another JSON value ("array")
\* or no JSON at all ("invalid"); ob is the value the body decodes to.
Answer(st, ct, js, tx, ob) ==
    [fault |-> "", phase |-> "head", cause |-> "", status |-> st,
     ctype |-> ct, json |-> js, text |-> tx, obj |-> ob]

\* A fault of the exchange: asyncio.TimeoutError ("timeout"),
\* aiohttp.ClientConnectionError ("connect") or another aiohttp.ClientError
\* ("client") with text c, before the response headers ("head") or, after
\* headers with status st, while the body is read ("body").
Fault(k, ph, c, st) ==
    [fault |-> k, phase |-> ph, cause |-> c, status |-> st,
     ctype |-> "application/json", json |-> "object", text |-> << >>,
     obj |-> OkPayload]

\* what the remote end can answer to GET /ping
Responses ==
    { Answer(200, "application/json", "object", << "{\"status\": \"ok\"}" >>,
             OkPayload),
      Fault("connect", "head", "refused", NoStatus) }

\* a call still in flight has no outcome
Pending == [cls |-> "pending", msg |-> << >>, status |-> NoStatus, val |-> OkPayload]

Raise(c, m, st) == [cls |-> c, msg |-> m, status |-> st, val |-> OkPayload]

Return(v) == [cls |-> "", msg |-> << >>, status |-> NoStatus, val |-> v]

\* The except clauses of _make_request, tried in order, on the fault of r
ClassifyFaultClientFirst(t, r) ==
    IF r.fault \in {"client", "connect"}
        THEN Raise("APIError", << "Request failed: ", r.cause >>, NoStatus)
        ELSE Raise("ConnectionError",
                   << "Request timed out after ", ToString(t.timeout),
                      " seconds" >>, NoStatus)

ClassifyFault(t, r) ==
    IF r.fault = "timeout"
        THEN Raise("ConnectionError",
                   << "Request timed out after ", ToString(t.timeout),
                      " seconds" >>, NoStatus)
    ELSE IF r.fault = "connect"
        THEN Raise("ConnectionError",
                   << "Failed to connect to API: ", r.cause >>, NoStatus)
    ELSE Raise("APIError", << "Request failed: ", r.cause >>, NoStatus)

\* await response.json(): the exception it raises ("" for none) and the value.
\* aiohttp raises ContentTypeError, a ClientError, unless the Content-Type is
\* application/json, and json.JSONDecodeError on a body that is not JSON.
ResponseJson(r) ==
    IF r.ctype # "application/json"
        THEN [exc |-> "ContentTypeError", val |-> OkPayload]
    ELSE IF r.json = "invalid"
        THEN [exc |-> "JSONDecodeError", val |-> OkPayload]
    ELSE [exc |-> "", val |-> r.obj]

\* _make_request, the branch response.status >= 400
ErrorStatus(t, r) ==
    LET j == ResponseJson(r) IN
    IF j.exc = "ContentTypeError"
        THEN ClassifyFault(t, Fault("client", "body",
                                    "Attempt to decode JSON with unexpected mimetype",
                                    r.status))
    ELSE IF j.exc = "JSONDecodeError"
        THEN Raise("APIError",
                   << "HTTP ", ToString(r.status), ": " >> \o r.text, r.status)
    ELSE IF r.json # "object"
        THEN Raise("AttributeError",
                   << "'list' object has no attribute 'get'" >>, NoStatus)
    ELSE IF "error" \in DOMAIN j.val
        THEN Raise("APIError", j.val.error, r.status)
    ELSE Raise("APIError", << "HTTP ", ToString(r.status) >>, r.status)

\* _make_request, the branch that parses the body of a response below 400
ParseBody(t, r) ==
    LET j == ResponseJson(r) IN
    IF j.exc = "ContentTypeError"
        THEN ClassifyFault(t, Fault("client", "body",
                                    "Attempt to decode JSON with unexpected mimetype",
                                    r.status))
    ELSE IF j.exc = "JSONDecodeError"
        THEN Return([response |-> r.text])
    ELSE Return(j.val)

\* _make_request: outcome of one buffered exchange that ends with r
MakeRequest(t, r) ==
    IF r.fault # "" /\ r.phase = "head"
        THEN ClassifyFault(t, r)
    ELSE IF t.variant = "auth" /\ r.status = 401
        THEN Raise("AuthenticationError",
                   << "Invalid API key or authentication failed" >>, NoStatus)
    ELSE IF r.fault # ""
        THEN ClassifyFault(t, r)
    ELSE IF r.status >= 400
        THEN ErrorStatus(t, r)
    ELSE ParseBody(t, r)

-----------------------------------------------------------------------------
(* Orchestrator: client.py *)

\* The property tts_fr / tts_wo / stt_fr / stt_wo, on the cache c and the
\* constructed objects b: the exception raised ("" for none) and c, b after.
FacadeAlwaysLocal(s, c, b) ==
    IF c[s] = 0
        THEN IF ~Truthy(base_url[s])
                THEN [exc |-> "ValidationError", client |-> c, built |-> b]
                ELSE LET n == NewLocalClient(base_url[s], epoch[s])
                     IN  [exc |-> "",
                          client |-> [c EXCEPT ![s] = Len(b[s]) + 1],
                          built |-> [b EXCEPT ![s] = Append(@, n.obj)]]
        ELSE [exc |-> "", client |-> c, built |-> b]

FacadeNoCache(s, c, b) ==
    IF ~Truthy(base_url[s])
        THEN [exc |-> "ValidationError", client |-> c, built |-> b]
        ELSE IF needs_auth[s] /\ ~Truthy(api_key)
            THEN [exc |-> "ValidationError", client |-> c, built |-> b]
            ELSE LET n == IF needs_auth[s]
                             THEN NewBaseClient(api_key, base_url[s], epoch[s])
                             ELSE NewLocalClient(base_url[s], epoch[s])
                 IN  [exc |-> "",
                      client |-> [c EXCEPT ![s] = Len(b[s]) + 1],
                      built |-> [b EXCEPT ![s] = Append(@, n.obj)]]

FacadeNoUrlCheck(s, c, b) ==
    IF c[s] = 0
        THEN IF needs_auth[s] /\ ~Truthy(api_key)
                THEN [exc |-> "ValidationError", client |-> c, built |-> b]
             ELSE LET n == IF needs_auth[s]
                              THEN NewBaseClient(api_key, base_url[s], epoch[s])
                              ELSE NewLocalClient(base_url[s], epoch[s])
                  IN  IF n.exc # ""
                         THEN [exc |-> n.exc, client |-> c, built |-> b]
                         ELSE [exc |-> "",
                               client |-> [c EXCEPT ![s] = Len(b[s]) + 1],
                               built |-> [b EXCEPT ![s] = Append(@, n.obj)]]
        ELSE [exc |-> "", client |-> c, built |-> b]

Facade(s, c, b) ==
    IF c[s] = 0
        THEN IF ~Truthy(base_url[s])
                THEN [exc |-> "ValidationError", client |-> c, built |-> b]
             ELSE IF needs_auth[s] /\ ~Truthy(api_key)
                THEN [exc |-> "ValidationError", client |-> c, built |-> b]
             ELSE LET n == IF needs_auth[s]
                              THEN NewBaseClient(api_key, base_url[s], epoch[s])
                              ELSE NewLocalClient(base_url[s], epoch[s])
                  IN  IF n.exc # ""
                         THEN [exc |-> n.exc, client |-> c, built |-> b]
                         ELSE [exc |-> "",
                               client |-> [c EXCEPT ![s] = Len(b[s]) + 1],
                               built |-> [b EXCEPT ![s] = Append(@, n.obj)]]
        ELSE [exc |-> "", client |-> c, built |-> b]

\* self.<svc>.ping(): the coroutine object; it has not run yet.  cfg and ep
\* record the service's identifier and epoch when the call was made (history).
NewPing(s, idx) ==
    [svc |-> s, tr |-> idx, st |-> "created", method |-> None, url |-> None,
     headers |-> None, out |-> Pending, cfg |-> endpoint_id[s],
     ep |-> epoch[s]]

\* ping_all up to the gather: visits the services in order from index i
RECURSIVE PingAllBuild(_, _)
PingAllBuild(i, acc) ==
    IF i > Len(ServiceOrder) \/ acc.exc # "" THEN acc
    ELSE LET s == ServiceOrder[i] IN
         IF Truthy(base_url[s])
            THEN LET f == Facade(s, acc.client, acc.built) IN
                 IF f.exc # ""
                    THEN [acc EXCEPT !.exc = f.exc]
                    ELSE PingAllBuild(i + 1,
                            [client |-> f.client, built |-> f.built,
                             tasks |-> Append(acc.tasks, NewPing(s, f.client[s])),
                             names |-> Append(acc.names, s), exc |-> ""])
            ELSE PingAllBuild(i + 1, acc)

\* asyncio.gather(*tasks, return_exceptions=True) on the outcomes of the tasks,
\* in list order: the exception it raises ("" for none) and the list it returns
GatherFirstException(outs) ==
    IF \E i \in 1..Len(outs) : outs[i].cls # ""
        THEN [exc |-> outs[CHOOSE i \in 1..Len(outs) : outs[i].cls # ""].cls,
              results |-> << >>]
        ELSE [exc |-> "", results |-> outs]

GatherReversed(outs) ==
    [exc |-> "",
     results |-> [i \in 1..Len(outs) |-> outs[Len(outs) + 1 - i]]]

Gather(outs) == [exc |-> "", results |-> outs]

\* isinstance(result, Exception): {'error': str(result)}, else the result
ResultEntry(o) == IF o.cls # "" THEN [error |-> o.msg] ELSE o.val

ZipResultsDropErrors(names, results) ==
    LET n == IF Len(names) < Len(results) THEN Len(names) ELSE Len(results)
        last(k) == CHOOSE i \in 1..n :
                      names[i] = k /\ \A j \in 1..n : names[j] = k => j <= i
    IN  [k \in { names[i] : i \in { j \in 1..n : results[j].cls = "" } } |->
            ResultEntry(results[last(k)])]

\* the loop over zip(service_names, ping_results)
ZipResults(names, results) ==
    LET n == IF Len(names) < Len(results) THEN Len(names) ELSE Len(results)
        last(k) == CHOOSE i \in 1..n :
                      names[i] = k /\ \A j \in 1..n : names[j] = k => j <= i
    IN  [k \in { names[i] : i \in 1..n } |-> ResultEntry(results[last(k)])]

EmptyDict == [k \in {} |-> << >>]

-----------------------------------------------------------------------------
(* Inputs *)

ApiKeys == { None, << "k" >> }

\* endpoint identifiers given to the constructor
InitIds == { None, << "a" >> }

\* direct endpoints given to the constructor
InitEndpoints == { None, << "http://localhost:9001", "/" >> }

\* endpoint identifiers given to configure_<service>
ConfigureIds == { EmptyStr, << "b" >> }

TTSIdle == [pc |-> "off"]

STTIdle == [pc |-> "off"]

TransportIdle == [pc |-> "off"]

ScopeIdle == [pc |-> "off"]

StreamIdle == [pc |-> "off"]

ReconfIdle == [pc |-> "off"]

PingOrderIdle == << >>

-----------------------------------------------------------------------------
(* The Orchestrator's state machine *)

\* SenVoice.__init__, on the arguments held by api_key, endpoint_id, endpoint
OrchConstructed ==
    /\ base_url = [s \in Services |-> BuildBaseUrl(endpoint[s], endpoint_id[s])]
    /\ needs_auth = [s \in Services |-> NeedsAuth(endpoint[s], endpoint_id[s])]
    /\ client = [s \in Services |-> 0]
    /\ built = [s \in Services |-> << >>]
    /\ epoch = [s \in Services |-> 0]
    /\ nconf = 0
    /\ pa_pc = "idle"
    /\ pa_names = << >>
    /\ pa_tasks = << >>
    /\ pa_at_call = {}
    /\ pa_result = EmptyDict
    /\ pa_exc = ""

\* SenVoice(...) with the arguments of the model
OrchInit ==
    /\ api_key \in ApiKeys
    /\ endpoint_id \in [Services -> InitIds]
    /\ endpoint \in [Services -> InitEndpoints]
    /\ Cardinality({ s \in Services : endpoint[s] # None \/ endpoint_id[s] # None })
          <= MaxGiven
    /\ OrchConstructed

\* reading sv.tts_fr, sv.tts_wo, sv.stt_fr or sv.stt_wo; a read that raises
\* leaves the Orchestrator as it was
Access(s) ==
    LET f == Facade(s, client, built) IN
    /\ client' = f.client
    /\ built' = f.built
    /\ UNCHANGED <<api_key, endpoint_id, endpoint, base_url, needs_auth, epoch,
                   nconf, pa_pc, pa_names, pa_tasks, pa_at_call, pa_result,
                   pa_exc, tts, stt, tr, sc, sm, rc, po>>

\* configure_tts_fr, configure_tts_wo, configure_stt_fr, configure_stt_wo:
\* the exception raised ("" for none) and the fields of service s after
ConfigureKeepClient(s, id) ==
    IF ~Truthy(id)
        THEN [exc |-> "ValidationError", endpoint_id |-> endpoint_id[s],
              base_url |-> base_url[s], client |-> client[s]]
        ELSE [exc |-> "", endpoint_id |-> id, base_url |-> RunpodUrl(id),
              client |-> client[s]]

ConfigureDropsThenValidates(s, id) ==
    IF ~Truthy(id)
        THEN [exc |-> "ValidationError", endpoint_id |-> endpoint_id[s],
              base_url |-> base_url[s], client |-> 0]
        ELSE [exc |-> "", endpoint_id |-> id, base_url |-> RunpodUrl(id),
              client |-> 0]

ConfigureResult(s, id) ==
    IF ~Truthy(id)
        THEN [exc |-> "ValidationError", endpoint_id |-> endpoint_id[s],
              base_url |-> base_url[s], client |-> client[s]]
        ELSE [exc |-> "", endpoint_id |-> id, base_url |-> RunpodUrl(id),
              client |-> 0]

\* configure_<s>(id) on the fields of the Orchestrator
ConfigureFieldsResetAll(s, id) ==
    LET c == ConfigureResult(s, id) IN
    /\ c.exc = "" => nconf < MaxConfigure
    /\ endpoint_id' = [endpoint_id EXCEPT ![s] = c.endpoint_id]
    /\ base_url' = [base_url EXCEPT ![s] = c.base_url]
    /\ client' = IF c.exc = "" THEN [u \in Services |-> 0] ELSE client
    /\ epoch' = [epoch EXCEPT ![s] = IF c.exc = "" THEN @ + 1 ELSE @]
    /\ nconf' = IF c.exc = "" THEN nconf + 1 ELSE nconf
    /\ UNCHANGED <<api_key, endpoint, needs_auth, built, pa_pc, pa_names,
                   pa_tasks, pa_at_call, pa_result, pa_exc>>

ConfigureFields(s, id) ==
    LET c == ConfigureResult(s, id) IN
    /\ c.exc = "" => nconf < MaxConfigure
    /\ endpoint_id' = [endpoint_id EXCEPT ![s] = c.endpoint_id]
    /\ base_url' = [base_url EXCEPT ![s] = c.base_url]
    /\ client' = [client EXCEPT ![s] = c.client]
    /\ epoch' = [epoch EXCEPT ![s] = IF c.exc = "" THEN @ + 1 ELSE @]
    /\ nconf' = IF c.exc = "" THEN nconf + 1 ELSE nconf
    /\ UNCHANGED <<api_key, endpoint, needs_auth, built, pa_pc, pa_names,
                   pa_tasks, pa_at_call, pa_result, pa_exc>>

Configure(s, id) ==
    /\ ConfigureFields(s, id)
    /\ UNCHANGED <<tts, stt, tr, sc, sm, rc, po>>

\* A gathered ping runs up to its first network wait: _make_request builds
\* the URL and sends GET /ping on the client's session.
StartPing(t, b) ==
    [t EXCEPT !.st = "sent", !.method = << "GET" >>,
              !.url = b[t.svc][t.tr].base_url \o << "/ping" >>,
              !.headers = Headers(b[t.svc][t.tr])]

\* ping_all, lines 276-299: the tasks are created and, handed to gather, each
\* runs to its first network wait in list order; with no task {} is returned.
\* A facade that raises ends ping_all with the tasks created so far never run.
PingAllStart ==
    /\ pa_pc = "idle"
    /\ LET acc == PingAllBuild(1, [client |-> client, built |-> built,
                                   tasks |-> << >>, names |-> << >>, exc |-> ""])
       IN  /\ client' = acc.client
           /\ built' = acc.built
           /\ pa_names' = acc.names
           /\ pa_at_call' = { s \in Services : Truthy(base_url[s]) }
           /\ pa_result' = EmptyDict
           /\ pa_exc' = acc.exc
           /\ IF acc.exc # ""
                 THEN /\ pa_pc' = "raised"
                      /\ pa_tasks' = acc.tasks
                 ELSE IF Len(acc.tasks) = 0
                 THEN /\ pa_pc' = "returned"
                      /\ pa_tasks' = acc.tasks
                 ELSE /\ pa_pc' = "gathering"
                      /\ pa_tasks' = [i \in 1..Len(acc.tasks) |->
                                         StartPing(acc.tasks[i], acc.built)]
    /\ UNCHANGED <<api_key, endpoint_id, endpoint, base_url, needs_auth, epoch,
                   nconf, tts, stt, tr, sc, sm, rc, po>>

\* the exchange of a ping ends with response or fault r: the task's outcome
TaskDoneFields(i, r) ==
    /\ pa_pc = "gathering"
    /\ i \in 1..Len(pa_tasks)
    /\ pa_tasks[i].st = "sent"
    /\ LET t == pa_tasks[i]
       IN  pa_tasks' = [pa_tasks EXCEPT ![i].st = "done",
                                        ![i].out = MakeRequest(built[t.svc][t.tr], r)]
    /\ UNCHANGED <<api_key, endpoint_id, endpoint, base_url, needs_auth, client,
                   built, epoch, nconf, pa_pc, pa_names, pa_at_call, pa_result,
                   pa_exc>>

TaskDone(i, r) ==
    /\ TaskDoneFields(i, r)
    /\ UNCHANGED <<tts, stt, tr, sc, sm, rc, po>>

\* ping_all, lines 299-307: the gather ends and the mapping is built
PingAllReturn ==
    /\ pa_pc = "gathering"
    /\ \A i \in 1..Len(pa_tasks) : pa_tasks[i].st = "done"
    /\ LET g == Gather([i \in 1..Len(pa_tasks) |-> pa_tasks[i].out])
       IN  /\ pa_exc' = g.exc
           /\ IF g.exc # ""
                 THEN /\ pa_pc' = "raised"
                      /\ pa_result' = EmptyDict
                 ELSE /\ pa_pc' = "returned"
                      /\ pa_result' = ZipResults(pa_names, g.results)
    /\ UNCHANGED <<api_key, endpoint_id, endpoint, base_url, needs_auth, client,
                   built, epoch, nconf, pa_names, pa_tasks, pa_at_call, tts, stt, tr, sc, sm, rc, po>>

\* the caller has taken ping_all's result or exception
PingAllDone ==
    /\ pa_pc \in {"returned", "raised"}
    /\ pa_pc' = "idle"
    /\ pa_names' = << >>
    /\ pa_tasks' = << >>
    /\ pa_at_call' = {}
    /\ pa_result' = EmptyDict
    /\ pa_exc' = ""
    /\ UNCHANGED <<api_key, endpoint_id, endpoint, base_url, needs_auth, client,
                   built, epoch, nconf, tts, stt, tr, sc, sm, rc, po>>

Init ==
    /\ OrchInit
    /\ tts = TTSIdle /\ stt = STTIdle /\ tr = TransportIdle /\ sc = ScopeIdle
    /\ sm = StreamIdle /\ rc = ReconfIdle /\ po = PingOrderIdle

Next ==
    \/ \E s \in Services : Access(s)
    \/ \E s \in Services, id \in ConfigureIds : Configure(s, id)
    \/ PingAllStart
    \/ \E i \in 1..Len(ServiceOrder), r \in Responses : TaskDone(i, r)
    \/ PingAllReturn
    \/ PingAllDone

Spec == Init /\ [][Next]_vars

\* SenVoice(api_key='k', tts_fr_endpoint='http://localhost:9001',
\*          stt_fr_endpoint_id='abc123')
ScenarioConstructed ==
    /\ api_key = << "k" >>
    /\ endpoint_id = [s \in Services |->
                         IF s = "stt_fr" THEN << "abc123" >> ELSE None]
    /\ endpoint = [s \in Services |->
                      IF s = "tts_fr" THEN << "http://localhost:9001" >> ELSE None]
    /\ OrchConstructed

ScenarioInit ==
    /\ ScenarioConstructed
    /\ tts = TTSIdle /\ stt = STTIdle /\ tr = TransportIdle /\ sc = ScopeIdle
    /\ sm = StreamIdle /\ rc = ReconfIdle /\ po = PingOrderIdle

SpecPingScenario == ScenarioInit /\ [][Next]_vars

-----------------------------------------------------------------------------
(* ping_all with the pings completing in any order: client.py, ping_all *)

\* What the remote end at url can answer to GET /ping: a status that names
\* the endpoint serving it, a 200 whose JSON object has the key "error", or
\* a refused connection.
PingAnswers(url) ==
    { Answer(200, "application/json", "object",
             << "{\"status\": \"ok\", \"endpoint\": \"" >> \o url \o << "\"}" >>,
             [status |-> << "ok" >>, endpoint |-> url]),
      Answer(200, "application/json", "object",
             << "{\"error\": \"model not loaded\"}" >>,
             [error |-> << "model not loaded" >>]),
      Fault("connect", "head", "refused", NoStatus) }

PingOrderInit ==
    /\ ScenarioConstructed
    /\ tts = TTSIdle /\ stt = STTIdle /\ tr = TransportIdle /\ sc = ScopeIdle
    /\ sm = StreamIdle /\ rc = ReconfIdle /\ po = PingOrderIdle

\* The exchange of the ping i ends with what its own endpoint answers; po is
\* the order in which the pings of the latest gather have completed.
PingOrderTaskDone(i) ==
    /\ i \in 1..Len(pa_tasks)
    /\ \E r \in PingAnswers(pa_tasks[i].url) : TaskDoneFields(i, r)
    /\ po' = IF \A j \in 1..Len(pa_tasks) : pa_tasks[j].st = "sent"
                THEN << i >>
                ELSE Append(po, i)
    /\ UNCHANGED <<tts, stt, tr, sc, sm, rc>>

PingOrderNext ==
    \/ \E s \in Services : Access(s)
    \/ \E s \in Services, id \in ConfigureIds : Configure(s, id)
    \/ PingAllStart
    \/ \E i \in 1..Len(ServiceOrder) : PingOrderTaskDone(i)
    \/ PingAllReturn
    \/ PingAllDone

SpecPingOrder == PingOrderInit /\ [][PingOrderNext]_vars

-----------------------------------------------------------------------------
(* TTS client: tts.py, streaming.py *)

\* whitespace characters that str.strip() removes, among those of the model
Whitespace == { " ", "\t" }

\* str.strip()
RECURSIVE Strip(_)
Strip(x) ==
    IF Len(x) > 0 /\ x[1] \in Whitespace THEN Strip(SubSeq(x, 2, Len(x)))
    ELSE IF Len(x) > 0 /\ x[Len(x)] \in Whitespace
        THEN Strip(SubSeq(x, 1, Len(x) - 1))
    ELSE x

\* The checks at the head of synthesize and of synthesize_stream: the
\* ValidationError message, << >> when the text passes.
ValidateTextNoStrip(x) ==
    IF Len(x) = 0 THEN << "Text must be a non-empty string" >> ELSE << >>

ValidateText(x) ==
    IF Len(x) = 0 THEN << "Text must be a non-empty string" >>
    ELSE IF Len(Strip(x)) = 0
        THEN << "Text cannot be empty or whitespace only" >>
    ELSE << >>

\* b"".join(audio_chunks)
RECURSIVE JoinReversed(_)
JoinReversed(cs) ==
    IF Len(cs) = 0 THEN << >> ELSE JoinReversed(Tail(cs)) \o Head(cs)

RECURSIVE Join(_)
Join(cs) == IF Len(cs) = 0 THEN << >> ELSE Head(cs) \o Join(Tail(cs))

\* the base64 alphabet; "=" pads
B64Alphabet ==
    <<
       "A", "B", "C", "D", "E", "F", "G", "H", "I", "J", "K", "L", "M", "N", "O", "P",
       "Q", "R", "S", "T", "U", "V", "W", "X", "Y", "Z", "a", "b", "c", "d", "e", "f",
       "g", "h", "i", "j", "k", "l", "m", "n", "o", "p", "q", "r", "s", "t", "u", "v",
       "w", "x", "y", "z", "0", "1", "2", "3", "4", "5", "6", "7", "8", "9", "+", "/"
    >>

B64Char(n) == B64Alphabet[n + 1]

\* base64.b64encode(audio_data).decode('utf-8')
RECURSIVE B64Encode(_)
B64Encode(b) ==
    IF Len(b) = 0 THEN << >>
    ELSE IF Len(b) = 1
        THEN << B64Char(b[1] \div 4), B64Char((b[1] % 4) * 16), "=", "=" >>
    ELSE IF Len(b) = 2
        THEN << B64Char(b[1] \div 4),
                B64Char((b[1] % 4) * 16 + b[2] \div 16),
                B64Char((b[2] % 16) * 4), "=" >>
    ELSE << B64Char(b[1] \div 4),
            B64Char((b[1] % 4) * 16 + b[2] \div 16),
            B64Char((b[2] % 16) * 4 + b[3] \div 64),
            B64Char(b[3] % 64) >> \o B64Encode(SubSeq(b, 4, Len(b)))

\* _get_session.  t.sessions lists every ClientSession the client has
\* created, "open" or "closed"; t.session is self._session, an index into it
\* and 0 for None.  The result is both after the call.
GetSessionAlwaysNew(t) ==
    [session |-> Len(t.sessions) + 1, sessions |-> Append(t.sessions, "open")]

GetSessionIgnoreClosed(t) ==
    IF t.session = 0
        THEN [session |-> Len(t.sessions) + 1,
              sessions |-> Append(t.sessions, "open")]
        ELSE [session |-> t.session, sessions |-> t.sessions]

GetSession(t) ==
    IF t.session = 0 \/ t.sessions[t.session] = "closed"
        THEN [session |-> Len(t.sessions) + 1,
              sessions |-> Append(t.sessions, "open")]
        ELSE [session |-> t.session, sessions |-> t.sessions]

\* dict.update: d with the entries of k added or replaced
DictUpdate(d, k) ==
    [x \in DOMAIN d \cup DOMAIN k |-> IF x \in DOMAIN k THEN k[x] ELSE d[x]]

\* params = {'prompt': text, 'voice': voice, 'format': format};
\* params.update(kwargs), for the call's arguments held by t
SynthesisParams(t) ==
    DictUpdate([prompt |-> t.text, voice |-> t.voice, format |-> t.format],
               t.kwargs)

\* synthesize_stream from its first line to the first network wait of
\* _stream_request, run for the call op: the ValidationError message
\* (<< >> for none) and the client after
StreamBegin(t, op) ==
    LET v == ValidateText(t.text) IN
    IF v # << >>
        THEN [msg |-> v, tts |-> t]
        ELSE LET g == GetSession(t)
                 q == [op |-> op, method |-> "GET",
                       url |-> t.base_url \o << "/tts" >>,
                       params |-> SynthesisParams(t)]
             IN  [msg |-> << >>,
                  tts |-> [t EXCEPT !.session = g.session,
                                    !.sessions = g.sessions,
                                    !.reqs = Append(@, q)]]

\* _stream_request, lines 50-67: the exception class for the status of the
\* response, "" when the body is to be streamed
StreamStatusError(status) ==
    IF status = 401 THEN "AuthenticationError"
    ELSE IF status >= 400 THEN "APIError"
    ELSE ""

\* what synthesize returns for the chunks it collected
SynthesizeReturn(t, chunks) ==
    [text |-> t.text, audio |-> B64Encode(Join(chunks)), format |-> t.format]

NoCall == [op |-> "", pc |-> "idle", pos |-> 0, yielded |-> << >>]

NoSynthesis ==
    [state |-> "none", exc |-> "", msg |-> << >>,
     val |-> [text |-> << >>, audio |-> << >>, format |-> << >>]]

NoStream == [state |-> "none", exc |-> "", msg |-> << >>, val |-> << >>]

\* TTSClient(api_key, base_url) or TTSLocalClient(base_url), with the
\* arguments of the calls to come (the text x and the extra keyword
\* arguments kw) and the answer r of the server to GET /tts
NewTTS(variant, x, kw, r) ==
    [pc |-> "on", variant |-> variant,
     base_url |-> Rstrip(<< "http://localhost:9001", "/" >>),
     session |-> 0, sessions |-> << >>, reqs |-> << >>,
     text |-> x, voice |-> << "mamito" >>, format |-> << "opus" >>,
     kwargs |-> kw, server |-> r, call |-> NoCall, syn |-> NoSynthesis, str |-> NoStream]

-----------------------------------------------------------------------------
(* Inputs of the TTS client *)

\* length of the text given to synthesize and synthesize_stream
MaxTextLen == 2

\* chunks in the body of the answer to GET /tts
MaxChunks == 2

TextChars == { " ", "\t", "a" }

Texts == UNION { [1..n -> TextChars] : n \in 0..MaxTextLen }

\* the chunks a body is made of; one is empty
ChunkValues == { << >>, << 0 >>, << 255, 1 >>, << 72, 105, 33 >> }

ChunkSeqs == UNION { [1..n -> ChunkValues] : n \in 0..MaxChunks }

\* a body of three chunks of 10, 20 and 5 bytes
Chunks10_20_5 ==
    << [i \in 1..10 |-> i], [i \in 1..20 |-> 100 + i], [i \in 1..5 |-> 250 + i] >>

\* extra keyword arguments of synthesize and synthesize_stream: text, voice
\* and format are parameters of their own and cannot be among them
TTSKwargs ==
    { EmptyDict,
      [k \in {"speed"} |-> << "1.5" >>],
      [k \in {"prompt"} |-> << "b" >>] }

TTSResponses ==
    { [status |-> 200, chunks |-> cs] : cs \in ChunkSeqs \cup {Chunks10_20_5} }
    \cup { [status |-> st, chunks |-> << >>] : st \in {401, 500} }

-----------------------------------------------------------------------------
(* The TTS client's state machine *)

\* the Orchestrator is not used
OrchOff ==
    /\ api_key = None
    /\ endpoint_id = [s \in Services |-> None]
    /\ endpoint = [s \in Services |-> None]
    /\ base_url = [s \in Services |-> None]
    /\ needs_auth = [s \in Services |-> FALSE]
    /\ client = [s \in Services |-> 0]
    /\ built = [s \in Services |-> << >>]
    /\ epoch = [s \in Services |-> 0]
    /\ nconf = 0
    /\ pa_pc = "idle"
    /\ pa_names = << >>
    /\ pa_tasks = << >>
    /\ pa_at_call = {}
    /\ pa_result = EmptyDict
    /\ pa_exc = ""

TTSInit ==
    /\ OrchOff
    /\ stt = STTIdle /\ tr = TransportIdle /\ sc = ScopeIdle
    /\ sm = StreamIdle /\ rc = ReconfIdle /\ po = PingOrderIdle
    /\ tts \in { NewTTS(v, x, kw, r) :
                    v \in {"auth", "local"}, x \in Texts, kw \in TTSKwargs,
                    r \in TTSResponses }

\* await client.synthesize(text), up to its first network wait
SynthesizeCall ==
    /\ tts.call.pc = "idle"
    /\ tts.syn.state = "none"
    /\ LET v == ValidateText(tts.text)
           b == StreamBegin(tts, "synthesize")
       IN  IF v # << >>
              THEN tts' = [tts EXCEPT !.syn = [NoSynthesis EXCEPT
                                !.state = "done", !.exc = "ValidationError",
                                !.msg = v]]
           ELSE IF b.msg # << >>
              THEN tts' = [b.tts EXCEPT !.syn = [NoSynthesis EXCEPT
                                !.state = "done", !.exc = "ValidationError",
                                !.msg = b.msg]]
           ELSE tts' = [b.tts EXCEPT !.call = [NoCall EXCEPT
                                !.op = "synthesize", !.pc = "waiting"]]
    /\ UNCHANGED <<orch_vars, stt, tr, sc, sm, rc, po>>

\* client.synthesize_stream(text): the generator is created, nothing has run
StreamCall ==
    /\ tts.call.pc = "idle"
    /\ tts.str.state = "none"
    /\ tts' = [tts EXCEPT !.call = [NoCall EXCEPT
                                !.op = "synthesize_stream", !.pc = "created"]]
    /\ UNCHANGED <<orch_vars, stt, tr, sc, sm, rc, po>>

\* the consumer asks the generator for its first chunk
StreamFirstNext ==
    /\ tts.call.pc = "created"
    /\ LET b == StreamBegin(tts, "synthesize_stream")
       IN  IF b.msg # << >>
              THEN tts' = [b.tts EXCEPT !.call = NoCall,
                                        !.str = [NoStream EXCEPT
                                !.state = "done", !.exc = "ValidationError",
                                !.msg = b.msg]]
              ELSE tts' = [b.tts EXCEPT !.call.pc = "waiting"]
    /\ UNCHANGED <<orch_vars, stt, tr, sc, sm, rc, po>>

\* the status line and headers of the answer arrive
ResponseHead ==
    /\ tts.call.pc = "waiting"
    /\ LET e == StreamStatusError(tts.server.status)
       IN  IF e = ""
              THEN tts' = [tts EXCEPT !.call.pc = "streaming", !.call.pos = 1]
           ELSE IF tts.call.op = "synthesize"
              THEN tts' = [tts EXCEPT !.call = NoCall,
                                      !.syn = [NoSynthesis EXCEPT
                                !.state = "done", !.exc = e]]
           ELSE tts' = [tts EXCEPT !.call = NoCall,
                                   !.str = [NoStream EXCEPT
                                !.state = "done", !.exc = e,
                                !.val = tts.call.yielded]]
    /\ UNCHANGED <<orch_vars, stt, tr, sc, sm, rc, po>>

\* iter_chunked hands over the next chunk of the body: if chunk: yield chunk
ChunkRead ==
    /\ tts.call.pc = "streaming"
    /\ tts.call.pos <= Len(tts.server.chunks)
    /\ LET c == tts.server.chunks[tts.call.pos]
       IN  tts' = [tts EXCEPT !.call.pos = @ + 1,
                              !.call.yielded =
                                  IF Len(c) > 0 THEN Append(@, c) ELSE @]
    /\ UNCHANGED <<orch_vars, stt, tr, sc, sm, rc, po>>

\* the body is exhausted: the generator ends; synthesize joins and encodes
StreamEnd ==
    /\ tts.call.pc = "streaming"
    /\ tts.call.pos > Len(tts.server.chunks)
    /\ IF tts.call.op = "synthesize"
          THEN tts' = [tts EXCEPT !.call = NoCall,
                                  !.syn = [NoSynthesis EXCEPT
                                !.state = "done",
                                !.val = SynthesizeReturn(tts, tts.call.yielded)]]
          ELSE tts' = [tts EXCEPT !.call = NoCall,
                                  !.str = [NoStream EXCEPT
                                !.state = "done", !.val = tts.call.yielded]]
    /\ UNCHANGED <<orch_vars, stt, tr, sc, sm, rc, po>>

TTSNext ==
    \/ SynthesizeCall
    \/ StreamCall
    \/ StreamFirstNext
    \/ ResponseHead
    \/ ChunkRead
    \/ StreamEnd

SpecTTS == TTSInit /\ [][TTSNext]_vars

-----------------------------------------------------------------------------
(* STT client: stt.py *)

\* base64.b64decode(s, validate=True), which is binascii.a2b_base64 in strict
\* mode: TRUE when it returns, FALSE when it raises.  The scan is at
\* character i with quad data characters in the current group of four, pads
\* padding characters counted and started set once a "=" was seen.
RECURSIVE B64Scan(_, _, _, _, _)
B64Scan(s, i, quad, pads, started) ==
    IF i > Len(s) THEN quad = 0
    ELSE IF s[i] = "="
        THEN IF quad >= 2 /\ quad + pads + 1 >= 4
                THEN i = Len(s)
                ELSE B64Scan(s, i + 1, quad,
                             IF quad >= 2 THEN pads + 1 ELSE pads, TRUE)
    ELSE IF \A n \in 1..Len(B64Alphabet) : B64Alphabet[n] # s[i]
        THEN FALSE
    ELSE IF started
        THEN FALSE
    ELSE B64Scan(s, i + 1, (quad + 1) % 4, 0, started)

B64DecodeStrict(s) ==
    IF Len(s) > 0 /\ s[1] = "=" THEN FALSE ELSE B64Scan(s, 1, 0, 0, FALSE)

\* The checks at the head of transcribe on the argument a, a value of type
\* a.type: the ValidationError message, << >> when a passes.
ValidateAudioNoDecode(a) ==
    IF a.type # "str" \/ Len(a.val) = 0
        THEN << "audio_base64 must be a non-empty string" >>
    ELSE IF Len(Strip(a.val)) = 0
        THEN << "audio_base64 cannot be empty or whitespace only" >>
    ELSE << >>

ValidateAudio(a) ==
    IF a.type # "str" \/ Len(a.val) = 0
        THEN << "audio_base64 must be a non-empty string" >>
    ELSE IF Len(Strip(a.val)) = 0
        THEN << "audio_base64 cannot be empty or whitespace only" >>
    ELSE IF ~B64DecodeStrict(a.val)
        THEN << "audio_base64 must be valid base64 encoded data" >>
    ELSE << >>

\* data = {"audio_base64": audio_base64}; data.update(kwargs)
TranscribeDataNoKwargs(a, kw) == [x \in {"audio_base64"} |-> a.val]

TranscribeData(a, kw) == DictUpdate([x \in {"audio_base64"} |-> a.val], kw)

\* transcribe(a, **kw) from its first line to the first network wait of
\* _make_request: the ValidationError message (<< >> for none) and the
\* client after
Transcribe(t, a, kw) ==
    LET v == ValidateAudio(a) IN
    IF v # << >>
        THEN [msg |-> v, stt |-> t]
        ELSE LET g == GetSession(t)
                 q == [method |-> "POST",
                       url |-> t.base_url \o << "/transcribe" >>,
                       json |-> TranscribeData(a, kw)]
             IN  [msg |-> << >>,
                  stt |-> [t EXCEPT !.session = g.session,
                                    !.sessions = g.sessions,
                                    !.reqs = Append(@, q)]]

\* The Wolof-style clients (STTWolofClient, STTWolofLocalClient) are imported
\* by client.py and __init__.py but stt.py does not define them; they are
\* modelled from the specification: sampleRate, default 16000, is validated
\* to be a positive integer and included in the request body.
DefaultSampleRate == 16000

ValidateSampleRate(rate) ==
    IF rate.type # "int" \/ rate.val <= 0
        THEN << "sample_rate must be a positive integer" >>
        ELSE << >>

TranscribeWolof(t, a, rate, kw) ==
    LET v == ValidateSampleRate(rate) IN
    IF v # << >>
        THEN [msg |-> v, stt |-> t]
        ELSE Transcribe(t, a,
                 DictUpdate([x \in {"sample_rate"} |-> rate.val], kw))

NoTranscription == [state |-> "none", out |-> Pending]

\* STTClient(api_key, base_url) or STTLocalClient(base_url), or their
\* Wolof-style counterparts, with the arguments of the call to come and the
\* answer r of the server to POST /transcribe
NewSTT(variant, style, a, rate, kw, r) ==
    [pc |-> "on", variant |-> variant, style |-> style,
     base_url |-> Rstrip(<< "http://localhost:9002", "/" >>),
     timeout |-> DefaultTimeout,
     session |-> 0, sessions |-> << >>, reqs |-> << >>,
     audio |-> a, rate |-> rate, kwargs |-> kw,
     server |-> r, call |-> "idle", res |-> NoTranscription]

-----------------------------------------------------------------------------
(* Inputs of the STT client *)

\* length of the string given to transcribe
MaxAudioLen == 4

AudioChars == { "A", "=", " ", "-" }

\* the audio arguments: None, a bytes object, strings over AudioChars and
\* the base64 of "Hi!" and of "Hi"
AudioArgs ==
    { [type |-> "none", val |-> None],
      [type |-> "bytes", val |-> << "A", "A", "A", "A" >>],
      [type |-> "str", val |-> << "S", "G", "k", "h" >>],
      [type |-> "str", val |-> << "S", "G", "k", "=" >>] }
    \cup { [type |-> "str", val |-> x] :
              x \in UNION { [1..n -> AudioChars] : n \in 0..MaxAudioLen } }

\* the sampleRate arguments: integers, a float, a string and None
SampleRates ==
    { [type |-> "int", val |-> n] : n \in {0 - 8000, 0, 1, DefaultSampleRate} }
    \cup { [type |-> "float", val |-> 8000], [type |-> "str", val |-> 8000],
           [type |-> "none", val |-> 0] }

Kwargs == { EmptyDict, [x \in {"language"} |-> << "wo" >>] }

STTResponses ==
    { Answer(200, "application/json", "object", << "{\"transcription\": \"na nga def\"}" >>,
             [transcription |-> << "na nga def" >>]),
      Fault("timeout", "head", "", NoStatus) }

-----------------------------------------------------------------------------
(* The STT client's state machine *)

STTInit ==
    /\ OrchOff
    /\ tts = TTSIdle /\ tr = TransportIdle /\ sc = ScopeIdle
    /\ sm = StreamIdle /\ rc = ReconfIdle /\ po = PingOrderIdle
    /\ stt \in { NewSTT(v, "unified", a, [type |-> "int", val |-> DefaultSampleRate], kw, r) :
                    v \in {"auth", "local"}, a \in AudioArgs, kw \in Kwargs,
                    r \in STTResponses }
               \cup
               { NewSTT(v, "wolof", a, rate, kw, r) :
                    v \in {"auth", "local"}, a \in AudioArgs, rate \in SampleRates,
                    kw \in Kwargs, r \in STTResponses }

\* the outcome of a call that raised ValidationError with message m
Invalid(m) == [state |-> "done", out |-> Raise("ValidationError", m, NoStatus)]

\* await client.transcribe(audio_base64, **kwargs), up to its first network wait
TranscribeCall ==
    /\ stt.pc = "on" /\ stt.style = "unified"
    /\ stt.call = "idle" /\ stt.res.state = "none"
    /\ LET b == Transcribe(stt, stt.audio, stt.kwargs)
       IN  IF b.msg # << >>
              THEN stt' = [b.stt EXCEPT !.res = Invalid(b.msg)]
              ELSE stt' = [b.stt EXCEPT !.call = "waiting"]
    /\ UNCHANGED <<orch_vars, tts, tr, sc, sm, rc, po>>

\* await client.transcribe(audio_base64, sample_rate, **kwargs) on a
\* Wolof-style client, up to its first network wait
TranscribeWolofCall ==
    /\ stt.pc = "on" /\ stt.style = "wolof"
    /\ stt.call = "idle" /\ stt.res.state = "none"
    /\ LET b == TranscribeWolof(stt, stt.audio, stt.rate, stt.kwargs)
       IN  IF b.msg # << >>
              THEN stt' = [b.stt EXCEPT !.res = Invalid(b.msg)]
              ELSE stt' = [b.stt EXCEPT !.call = "waiting"]
    /\ UNCHANGED <<orch_vars, tts, tr, sc, sm, rc, po>>

\* the exchange ends and _make_request returns or raises
TranscribeDone ==
    /\ stt.pc = "on" /\ stt.call = "waiting"
    /\ stt' = [stt EXCEPT !.call = "idle",
                          !.res = [state |-> "done",
                                   out |-> MakeRequest(stt, stt.server)]]
    /\ UNCHANGED <<orch_vars, tts, tr, sc, sm, rc, po>>

STTNext ==
    \/ TranscribeCall
    \/ TranscribeWolofCall
    \/ TranscribeDone

SpecSTT == STTInit /\ [][STTNext]_vars

-----------------------------------------------------------------------------
(* One Transport used on its own: base.py *)

\* calls made on the Transport in one behaviour
MaxCalls == 2

\* timeout: int = 60, the default of the STT clients
STTTimeout == 60

\* the response of a call that is still in flight
NoAnswer == Answer(NoStatus, "", "", << >>, OkPayload)

\* BaseClient(api_key, base_url, timeout) or LocalClient(base_url, timeout):
\* no session yet, no call made
NewTransport(variant, timeout) ==
    [pc |-> "on", variant |-> variant,
     base_url |-> Rstrip(<< "http://localhost:9001", "/" >>),
     timeout |-> timeout, session |-> 0, sessions |-> << >>, calls |-> << >>]

\* ping(), which is _make_request('GET', '/ping'), up to its first network
\* wait: the URL is built, _get_session gives the session and the request is
\* sent on it.  prev, prev_open and live are history: self._session before
\* the call, whether it was open, and whether the session used is open.
Execute(t) ==
    LET g == GetSession(t) IN
    [t EXCEPT !.session = g.session,
              !.sessions = g.sessions,
              !.calls = Append(@,
                  [st |-> "sent", url |-> t.base_url \o << "/ping" >>,
                   sess |-> g.session,
                   live |-> g.sessions[g.session] = "open",
                   prev |-> t.session,
                   prev_open |-> t.session # 0 /\ t.sessions[t.session] = "open",
                   r |-> NoAnswer, out |-> Pending])]

\* close(): if self._session and not self._session.closed: the session is
\* closed; self._session keeps referring to it
CloseSession(t) ==
    IF t.session # 0 /\ t.sessions[t.session] = "open"
        THEN [t EXCEPT !.sessions[t.session] = "closed"]
        ELSE t

-----------------------------------------------------------------------------
(* Inputs of the Transport *)

Timeouts == { DefaultTimeout, STTTimeout }

\* the bodies of an answer: Content-Type, kind of JSON, raw text, decoded
\* value.  The decoded JSON array [1] is written [array |-> << 1 >>].
Bodies ==
    { [ctype |-> "application/json", json |-> "object",
       text |-> << "{\"error\": \"boom\"}" >>, obj |-> [error |-> << "boom" >>]],
      [ctype |-> "application/json", json |-> "object",
       text |-> << "{\"status\": \"ok\"}" >>, obj |-> OkPayload],
      [ctype |-> "application/json", json |-> "array",
       text |-> << "[1]" >>, obj |-> [array |-> << 1 >>]],
      [ctype |-> "application/json", json |-> "invalid",
       text |-> << "oops" >>, obj |-> OkPayload],
      [ctype |-> "text/plain", json |-> "invalid",
       text |-> << "oops" >>, obj |-> OkPayload],
      [ctype |-> "text/plain", json |-> "object",
       text |-> << "{\"status\": \"ok\"}" >>, obj |-> OkPayload] }

Statuses == { 200, 401, 500 }

\* what can end the exchange of a call: an answer, or a fault before the
\* headers or while the body is read
ExecResponses ==
    { Answer(st, b.ctype, b.json, b.text, b.obj) : st \in Statuses, b \in Bodies }
    \cup { Fault(k, "head", "cause", NoStatus) :
              k \in {"timeout", "connect", "client"} }
    \cup { Fault(k, "body", "cause", st) :
              k \in {"timeout", "connect", "client"}, st \in Statuses }

-----------------------------------------------------------------------------
(* The Transport's state machine *)

TransportInit ==
    /\ OrchOff
    /\ tts = TTSIdle /\ stt = STTIdle /\ sc = ScopeIdle
    /\ sm = StreamIdle /\ rc = ReconfIdle /\ po = PingOrderIdle
    /\ tr \in { NewTransport(v, t) : v \in {"auth", "local"}, t \in Timeouts }

\* a call starts, possibly while others are in flight
ExecStart ==
    /\ tr.pc = "on"
    /\ Len(tr.calls) < MaxCalls
    /\ tr' = Execute(tr)
    /\ UNCHANGED <<orch_vars, tts, stt, sc, sm, rc, po>>

\* the exchange of call i ends with r and _make_request returns or raises
ExecDone(i, r) ==
    /\ tr.pc = "on"
    /\ i \in 1..Len(tr.calls)
    /\ tr.calls[i].st = "sent"
    /\ tr' = [tr EXCEPT !.calls[i].st = "done",
                        !.calls[i].r = r,
                        !.calls[i].out = MakeRequest(tr, r)]
    /\ UNCHANGED <<orch_vars, tts, stt, sc, sm, rc, po>>

\* close(), also run by __aexit__ when an async with block is left
TransportClose ==
    /\ tr.pc = "on"
    /\ tr' = CloseSession(tr)
    /\ UNCHANGED <<orch_vars, tts, stt, sc, sm, rc, po>>

TransportNext ==
    \/ ExecStart
    \/ \E i \in 1..MaxCalls, r \in ExecResponses : ExecDone(i, r)
    \/ TransportClose

SpecTransport == TransportInit /\ [][TransportNext]_vars

-----------------------------------------------------------------------------
(* The Orchestrator as a scoped resource: client.py, close and __aexit__ *)

\* a Transport that has made no request has no session
NoSessions == [session |-> 0, sessions |-> << >>]

\* ss[s][i] holds the session fields of the Transport built[s][i]; the
\* Transports past the end of ss[s] have made no request
SessOf(ss, s, i) == IF i <= Len(ss[s]) THEN ss[s][i] ELSE NoSessions

\* ss[s] extended to n Transports
Pad(q, n) == [k \in 1..n |-> IF k <= Len(q) THEN q[k] ELSE NoSessions]

\* BaseClient.close() / LocalClient.close() on the session fields t, where the
\* release of an open session raises when fails: the exception ("" for none)
\* and the fields after
CloseOne(t, fails) ==
    IF t.session # 0 /\ t.sessions[t.session] = "open" /\ fails
        THEN [exc |-> "ReleaseError", t |-> t]
        ELSE [exc |-> "", t |-> CloseSession(t)]

\* SenVoice.close() on the cache c and the sessions ss, where the releases of
\* the services in F raise: one close() per cached client, gathered with
\* return_exceptions=True.  attempted are the services whose close() ran and
\* failed those whose close() raised.
CloseAllStopAtFirstFailure(c, ss, F) ==
    LET raises(s) == c[s] # 0 /\ CloseOne(SessOf(ss, s, c[s]), s \in F).exc # ""
        pos(s) == CHOOSE i \in 1..Len(ServiceOrder) : ServiceOrder[i] = s
        ran(s) == c[s] # 0 /\ \A x \in Services : (pos(x) < pos(s)) => ~raises(x)
    IN  [exc |-> IF \E s \in Services : raises(s) THEN "ReleaseError" ELSE "",
         sess |-> [s \in Services |->
                     IF ran(s)
                        THEN [Pad(ss[s], c[s]) EXCEPT
                                 ![c[s]] = CloseOne(@, s \in F).t]
                        ELSE ss[s]],
         attempted |-> { s \in Services : ran(s) },
         failed |-> { s \in Services : ran(s) /\ raises(s) }]

CloseAll(c, ss, F) ==
    [exc |-> "",
     sess |-> [s \in Services |->
                 IF c[s] # 0
                    THEN [Pad(ss[s], c[s]) EXCEPT ![c[s]] = CloseOne(@, s \in F).t]
                    ELSE ss[s]],
     attempted |-> { s \in Services : c[s] # 0 },
     failed |-> { s \in Services :
                    c[s] # 0 /\ CloseOne(SessOf(ss, s, c[s]), s \in F).exc # "" }]

\* how an async with block is left
ExitPaths == { "normal", "return", "error" }

\* async with SenVoice(...) as sv: the block has been entered
ScopeEntered ==
    [pc |-> "in", sess |-> [s \in Services |-> << >>], path |-> "",
     close_exc |-> "", attempted |-> {}, failed |-> {}]

ScopeInit ==
    /\ OrchInit
    /\ tts = TTSIdle /\ stt = STTIdle /\ tr = TransportIdle
    /\ sm = StreamIdle /\ rc = ReconfIdle /\ po = PingOrderIdle
    /\ sc = ScopeEntered

\* inside the block: await sv.<s>.ping().  The facade is read and, unless it
\* raises, the Transport gets its session and sends the request.
ScopeCall(s) ==
    /\ sc.pc = "in"
    /\ LET f == Facade(s, client, built) IN
       IF f.exc # ""
          THEN UNCHANGED <<client, built, sc>>
          ELSE LET i == f.client[s]
                   g == GetSession(SessOf(sc.sess, s, i))
               IN  /\ client' = f.client
                   /\ built' = f.built
                   /\ sc' = [sc EXCEPT !.sess[s] =
                                [Pad(@, i) EXCEPT ![i] =
                                    [session |-> g.session,
                                     sessions |-> g.sessions]]]
    /\ UNCHANGED <<api_key, endpoint_id, endpoint, base_url, needs_auth, epoch,
                   nconf, pa_pc, pa_names, pa_tasks, pa_at_call, pa_result,
                   pa_exc, tts, stt, tr, sm, rc, po>>

\* inside the block: sv.configure_<s>(id)
ScopeConfigure(s, id) == sc.pc = "in" /\ Configure(s, id)

\* the block is left along path and __aexit__ awaits close(); the releases
\* of the services in F raise
ScopeExit(path, F) ==
    /\ sc.pc = "in"
    /\ LET c == CloseAll(client, sc.sess, F)
       IN  sc' = [sc EXCEPT !.pc = "exited", !.path = path, !.sess = c.sess,
                            !.close_exc = c.exc, !.attempted = c.attempted,
                            !.failed = c.failed]
    /\ UNCHANGED <<orch_vars, tts, stt, tr, sm, rc, po>>

ScopeNext ==
    \/ \E s \in Services : ScopeCall(s)
    \/ \E s \in Services, id \in ConfigureIds : ScopeConfigure(s, id)
    \/ \E path \in ExitPaths, F \in SUBSET Services : ScopeExit(path, F)

SpecScope == ScopeInit /\ [][ScopeNext]_vars

-----------------------------------------------------------------------------
(* Calls in flight across configure_<service>: client.py, base.py *)

\* configure_<service> on the session fields t of the Transport it drops:
\* self._<svc>_client = None; the Transport itself is not touched
DropClientClosing(t) == CloseSession(t)

DropClient(t) == t

\* the Orchestrator has been constructed; no call made
ReconfEntered == [pc |-> "on", sess |-> [s \in Services |-> << >>], calls |-> << >>]

\* an Orchestrator with one local and one managed service, two without target
ReconfInit ==
    /\ ScenarioConstructed
    /\ tts = TTSIdle /\ stt = STTIdle /\ tr = TransportIdle /\ sc = ScopeIdle
    /\ sm = StreamIdle
    /\ rc = ReconfEntered /\ po = PingOrderIdle

\* await sv.<s>.ping() starts: the facade is read and, unless it raises, the
\* Transport gets its session and sends GET /ping.  ep is the epoch of the
\* service at that moment and reconf whether configure_<s> was invoked while
\* the call was in flight (both history).
ReconfCallStart(s) ==
    /\ rc.pc = "on"
    /\ Len(rc.calls) < MaxCalls
    /\ LET f == Facade(s, client, built) IN
       IF f.exc # ""
          THEN UNCHANGED <<client, built, rc>>
          ELSE LET i == f.client[s]
                   g == GetSession(SessOf(rc.sess, s, i))
               IN  /\ client' = f.client
                   /\ built' = f.built
                   /\ rc' = [rc EXCEPT
                         !.sess[s] = [Pad(@, i) EXCEPT ![i] =
                                         [session |-> g.session,
                                          sessions |-> g.sessions]],
                         !.calls = Append(@,
                             [svc |-> s, tr |-> i, st |-> "sent",
                              url |-> f.built[s][i].base_url \o << "/ping" >>,
                              sess |-> g.session, ep |-> epoch[s],
                              reconf |-> FALSE, r |-> NoAnswer,
                              out |-> Pending])]
    /\ UNCHANGED <<api_key, endpoint_id, endpoint, base_url, needs_auth, epoch,
                   nconf, pa_pc, pa_names, pa_tasks, pa_at_call, pa_result,
                   pa_exc, tts, stt, tr, sc, sm, po>>

\* the exchange of the call i ends with r, on the Transport it started on
ReconfCallDone(i, r) ==
    /\ rc.pc = "on"
    /\ i \in 1..Len(rc.calls)
    /\ rc.calls[i].st = "sent"
    /\ LET c == rc.calls[i]
       IN  rc' = [rc EXCEPT !.calls[i].st = "done",
                            !.calls[i].r = r,
                            !.calls[i].out = MakeRequest(built[c.svc][c.tr], r)]
    /\ UNCHANGED <<orch_vars, tts, stt, tr, sc, sm, po>>

\* sv.configure_<s>(id), possibly while calls are in flight
ReconfConfigure(s, id) ==
    /\ rc.pc = "on"
    /\ ConfigureFields(s, id)
    /\ rc' = IF ConfigureResult(s, id).exc # "" THEN rc
             ELSE [rc EXCEPT
                     !.sess[s] = [k \in 1..Len(@) |->
                                     IF k = client[s] THEN DropClient(@[k])
                                     ELSE @[k]],
                     !.calls = [k \in 1..Len(@) |->
                                   IF @[k].svc = s /\ @[k].st = "sent"
                                       THEN [@[k] EXCEPT !.reconf = TRUE]
                                       ELSE @[k]]]
    /\ UNCHANGED <<tts, stt, tr, sc, sm, po>>

ReconfNext ==
    \/ \E s \in Services : ReconfCallStart(s)
    \/ \E i \in 1..MaxCalls, r \in Responses : ReconfCallDone(i, r)
    \/ \E s \in Services, id \in ConfigureIds : ReconfConfigure(s, id)

SpecReconf == ReconfInit /\ [][ReconfNext]_vars

-----------------------------------------------------------------------------
(* Streaming on a shared client: streaming.py, tts.py, base.py *)

\* pings made on the client in one behaviour, next to its synthesis
MaxPings == 2

\* a call of the client.  pc is its position: "created" (a generator object
\* that has not run), "head" (request sent, waiting for the status line),
\* "body" (waiting for the next chunk), "yield" (suspended at yield chunk,
\* the consumer has the chunk), "abandoned" (the consumer has left its loop),
\* "finalized" (the generator was closed by the garbage collector's
\* finalizer) and "done" (returned or raised).  conn is the response of
\* async with session.request(...): "none", "held" or "released".  arrived
\* are the chunks read from the body and end is how the body ended, "eof" or
\* the kind of fault (both history); yielded are the chunks handed over.
NewCall(op) ==
    [op |-> op, pc |-> "created", conn |-> "none", sess |-> 0, r |-> NoAnswer,
     arrived |-> << >>, end |-> "", yielded |-> << >>, out |-> Pending,
     again |-> FALSE]

\* TTSClient(api_key, base_url) or TTSLocalClient(base_url): no session, no
\* request sent, no call made
NewStreamClient(variant) ==
    [pc |-> "on", variant |-> variant,
     base_url |-> Rstrip(<< "http://localhost:9001", "/" >>),
     timeout |-> DefaultTimeout, session |-> 0, sessions |-> << >>,
     reqs |-> << >>, text |-> << "a" >>, voice |-> << "mamito" >>,
     format |-> << "opus" >>, kwargs |-> [k \in {"speed"} |-> << "1.5" >>],
     calls |-> << >>]

\* ping(), which is _make_request('GET', '/ping'), up to its first network
\* wait, as a new call of the client
PingBegin(t) ==
    LET g == GetSession(t)
        q == [op |-> "ping", method |-> "GET",
              url |-> t.base_url \o << "/ping" >>, params |-> None]
    IN  [t EXCEPT !.session = g.session,
                  !.sessions = g.sessions,
                  !.reqs = Append(@, q),
                  !.calls = Append(@, [NewCall("ping") EXCEPT
                                          !.pc = "head", !.conn = "held",
                                          !.sess = g.session])]

\* synthesize_stream(text) run from its first line to the first network
\* wait of _stream_request, for the call i of kind op
SynthBegin(t, i, op) ==
    LET b == StreamBegin(t, op).tts
    IN  [b EXCEPT !.calls[i].pc = "head", !.calls[i].conn = "held",
                  !.calls[i].sess = b.session]

\* The call i raises out to its caller.  Leaving async with releases the
\* response; nothing else of the client changes and no request is sent.
RaisedThenRetried(t, i, out) ==
    [t EXCEPT !.reqs = Append(@, @[Len(@)]),
              !.calls[i].pc = "head"]

RaisedCancelsOthers(t, i, out) ==
    [t EXCEPT !.calls =
        [j \in 1..Len(t.calls) |->
            IF j = i \/ t.calls[j].conn = "held"
                THEN [t.calls[j] EXCEPT !.pc = "done", !.conn = "released",
                                        !.out = out]
                ELSE t.calls[j]]]

Raised(t, i, out) ==
    [t EXCEPT !.calls[i].pc = "done", !.calls[i].conn = "released",
              !.calls[i].out = out]

\* the call i returns v (a generator: it ends after having yielded v)
Returned(t, i, v) ==
    [t EXCEPT !.calls[i].pc = "done", !.calls[i].conn = "released",
              !.calls[i].out = Return(v)]

\* _make_request ends with r
PingEnd(t, i, r) ==
    LET o == MakeRequest(t, r) IN
    IF o.cls = "" THEN Returned([t EXCEPT !.calls[i].r = r], i, o.val)
    ELSE Raised([t EXCEPT !.calls[i].r = r], i, o)

\* _stream_request, lines 42-67 and 74-79, on the initial response r: what
\* it raises, Pending when the body is to be streamed
StreamHead(t, r) ==
    IF r.fault # "" /\ r.phase = "head"
        THEN ClassifyFault(t, r)
    ELSE IF r.status = 401
        THEN Raise("AuthenticationError",
                   << "Invalid API key or authentication failed" >>, NoStatus)
    ELSE IF r.fault # ""
        THEN ClassifyFault(t, r)
    ELSE IF r.status >= 400
        THEN ErrorStatus(t, r)
    ELSE Pending

\* if chunk: yield chunk, on the chunks ys yielded so far
EmitNewestFirst(ys, c) == IF Len(c) > 0 THEN << c >> \o ys ELSE ys

Emit(ys, c) == IF Len(c) > 0 THEN Append(ys, c) ELSE ys

\* iter_chunked hands chunk c to the loop of the call i
StreamChunk(t, i, c) ==
    [t EXCEPT !.calls[i].arrived = Append(@, c),
              !.calls[i].yielded = Emit(@, c),
              !.calls[i].pc = IF Len(c) > 0 THEN "yield" ELSE "body"]

\* iter_chunked is exhausted: _stream_request and synthesize_stream end, and
\* synthesize joins and encodes what it collected
StreamEof(t, i) ==
    IF t.calls[i].op = "synthesize"
        THEN Returned(t, i, SynthesizeReturn(t, t.calls[i].yielded))
        ELSE Returned(t, i, t.calls[i].yielded)

\* a fault of kind k while the body is read: the except clauses of
\* _stream_request; synthesize has no handler and lets the exception through
StreamFaultSwallowed(t, i, k) == StreamEof(t, i)

StreamFault(t, i, k) ==
    Raised(t, i, ClassifyFault(t, Fault(k, "body", "cause", 200)))

-----------------------------------------------------------------------------
(* Inputs of the shared client *)

\* the chunks iter_chunked can hand over; one is empty
BodyChunks == { << >>, << 1 >>, << 2 >> }

\* the answer to GET /tts whose body is audio
AudioAnswer == Answer(200, "audio/ogg", "invalid", << >>, OkPayload)

\* initial responses to GET /tts: the audio answer, an error status with
\* each body, a fault before the headers or while an error body is read
\* (the body of a 401 is never read)
HeadResponses ==
    { AudioAnswer }
    \cup { r \in ExecResponses :
              /\ r.status # 200
              /\ ~(r.fault # "" /\ r.phase = "body" /\ r.status = 401) }

\* what can end the exchange of a ping
PingResponses == Responses \cup { Fault("timeout", "head", "cause", NoStatus) }

FaultKinds == { "timeout", "connect", "client" }

-----------------------------------------------------------------------------
(* The shared client's state machine *)

StreamInit ==
    /\ OrchOff
    /\ tts = TTSIdle /\ stt = STTIdle /\ tr = TransportIdle /\ sc = ScopeIdle
    /\ rc = ReconfIdle /\ po = PingOrderIdle
    /\ sm \in { NewStreamClient(v) : v \in {"auth", "local"} }

\* the indices of the calls made so far
Calls == 1..Len(sm.calls)

\* await client.ping() starts, possibly while other calls are in flight
PingStart ==
    /\ sm.pc = "on"
    /\ Cardinality({ i \in Calls : sm.calls[i].op = "ping" }) < MaxPings
    /\ sm' = PingBegin(sm)
    /\ UNCHANGED <<orch_vars, tts, stt, tr, sc, rc, po>>

\* the exchange of the ping i ends with r
PingDone(i, r) ==
    /\ sm.pc = "on"
    /\ i \in Calls
    /\ sm.calls[i].op = "ping" /\ sm.calls[i].pc = "head"
    /\ sm' = PingEnd(sm, i, r)
    /\ UNCHANGED <<orch_vars, tts, stt, tr, sc, rc, po>>

\* await client.synthesize(text) starts: it iterates synthesize_stream, which
\* runs to the first network wait.  One synthesis is made per behaviour.
SynthStart ==
    /\ sm.pc = "on"
    /\ \A i \in Calls : sm.calls[i].op = "ping"
    /\ sm' = SynthBegin([sm EXCEPT !.calls = Append(@, NewCall("synthesize"))],
                        Len(sm.calls) + 1, "synthesize")
    /\ UNCHANGED <<orch_vars, tts, stt, tr, sc, rc, po>>

\* client.synthesize_stream(text): the generator is created, nothing has run
GenCreate ==
    /\ sm.pc = "on"
    /\ \A i \in Calls : sm.calls[i].op = "ping"
    /\ sm' = [sm EXCEPT !.calls = Append(@, NewCall("synthesize_stream"))]
    /\ UNCHANGED <<orch_vars, tts, stt, tr, sc, rc, po>>

\* the consumer asks the generator i for its first chunk
GenFirstNext(i) ==
    /\ i \in Calls
    /\ sm.calls[i].pc = "created"
    /\ sm' = SynthBegin(sm, i, "synthesize_stream")
    /\ UNCHANGED <<orch_vars, tts, stt, tr, sc, rc, po>>

\* the initial response r of the synthesis i arrives
HeadArrives(i, r) ==
    /\ i \in Calls
    /\ sm.calls[i].op # "ping" /\ sm.calls[i].pc = "head"
    /\ LET o == StreamHead(sm, r)
           t == [sm EXCEPT !.calls[i].r = r]
       IN  IF o = Pending
              THEN sm' = [t EXCEPT !.calls[i].pc = "body"]
              ELSE sm' = Raised(t, i, o)
    /\ UNCHANGED <<orch_vars, tts, stt, tr, sc, rc, po>>

\* the next chunk c of the body arrives; a consumer suspended at the yield
\* has asked for it
ChunkArrives(i, c) ==
    /\ i \in Calls
    /\ sm.calls[i].pc \in {"body", "yield"}
    /\ Len(sm.calls[i].arrived) < MaxChunks
    /\ sm' = StreamChunk(sm, i, c)
    /\ UNCHANGED <<orch_vars, tts, stt, tr, sc, rc, po>>

\* the body ends
BodyEnds(i) ==
    /\ i \in Calls
    /\ sm.calls[i].pc \in {"body", "yield"}
    /\ sm' = [StreamEof(sm, i) EXCEPT !.calls[i].end = "eof"]
    /\ UNCHANGED <<orch_vars, tts, stt, tr, sc, rc, po>>

\* the connection drops or the timeout expires while the body is read
BodyFails(i, k) ==
    /\ i \in Calls
    /\ sm.calls[i].pc \in {"body", "yield"}
    /\ sm' = [StreamFault(sm, i, k) EXCEPT !.calls[i].end = k]
    /\ UNCHANGED <<orch_vars, tts, stt, tr, sc, rc, po>>

\* the consumer of synthesize_stream leaves its async for loop with break,
\* return or an exception: the generator stays suspended at its yield
ConsumerBreaks(i) ==
    /\ i \in Calls
    /\ sm.calls[i].op = "synthesize_stream" /\ sm.calls[i].pc = "yield"
    /\ sm' = [sm EXCEPT !.calls[i].pc = "abandoned"]
    /\ UNCHANGED <<orch_vars, tts, stt, tr, sc, rc, po>>

\* the abandoned generator is finalized: once it is garbage, the event loop's
\* asynchronous-generator hook schedules aclose(), GeneratorExit is raised at
\* the yield and async with releases the response
GenFinalized(i) ==
    /\ i \in Calls
    /\ sm.calls[i].pc = "abandoned"
    /\ sm' = [sm EXCEPT !.calls[i].pc = "finalized",
                        !.calls[i].conn = "released"]
    /\ UNCHANGED <<orch_vars, tts, stt, tr, sc, rc, po>>

\* the consumer advances a generator that has ended: StopAsyncIteration
NextAfterEnd(i) ==
    /\ i \in Calls
    /\ sm.calls[i].op = "synthesize_stream" /\ sm.calls[i].pc = "done"
    /\ ~sm.calls[i].again
    /\ sm' = [sm EXCEPT !.calls[i].again = TRUE]
    /\ UNCHANGED <<orch_vars, tts, stt, tr, sc, rc, po>>

StreamNext ==
    \/ PingStart
    \/ \E i \in 1..(MaxPings + 1), r \in PingResponses : PingDone(i, r)
    \/ SynthStart
    \/ GenCreate
    \/ \E i \in 1..(MaxPings + 1) : GenFirstNext(i)
    \/ \E i \in 1..(MaxPings + 1), r \in HeadResponses : HeadArrives(i, r)
    \/ \E i \in 1..(MaxPings + 1), c \in BodyChunks : ChunkArrives(i, c)
    \/ \E i \in 1..(MaxPings + 1) : BodyEnds(i)
    \/ \E i \in 1..(MaxPings + 1), k \in FaultKinds : BodyFails(i, k)
    \/ \E i \in 1..(MaxPings + 1) : ConsumerBreaks(i)
    \/ \E i \in 1..(MaxPings + 1) : GenFinalized(i)
    \/ \E i \in 1..(MaxPings + 1) : NextAfterEnd(i)

SpecStream == StreamInit /\ [][StreamNext]_vars

-----------------------------------------------------------------------------
(* Claims about the Orchestrator, checked under Spec *)

\* the set of indices of ping_all's tasks
TaskIds == 1..Len(pa_tasks)

\* ping_all has ended after every ping it issued has completed
AllPingsCompleted ==
    /\ pa_pc \in {"returned", "raised"}
    /\ Len(pa_tasks) > 0
    /\ \A i \in TaskIds : pa_tasks[i].st = "done"

\* the tasks whose ping failed: the set K
FailedPings == { i \in TaskIds : pa_tasks[i].out.cls # "" }

\* C1: when every ping that ping_all issued has completed, whichever subset
\* K of them failed, ping_all returns a mapping in which each service of K
\* carries the error outcome of its own failure and every other pinged
\* service carries the payload of its own ping: no failure makes the call
\* raise or changes another service's entry.
C1_PingAllIsolatesFailures ==
    AllPingsCompleted =>
        /\ pa_pc = "returned"
        /\ DOMAIN pa_result = { pa_tasks[i].svc : i \in TaskIds }
        /\ \A i \in TaskIds :
              LET t == pa_tasks[i] IN
              IF i \in FailedPings
                 THEN pa_result[t.svc] = [error |-> t.out.msg]
                 ELSE pa_result[t.svc] = t.out.val
        /\ Cardinality({ s \in DOMAIN pa_result :
                            DOMAIN pa_result[s] = {"error"} })
              = Cardinality(FailedPings)

\* C1 witness: ping_all has returned with one ping failed and another succeeded
C1_Witness ==
    /\ pa_pc = "returned"
    /\ \E i, j \in TaskIds :
          /\ pa_tasks[i].out.cls = "ConnectionError"
          /\ pa_tasks[j].out.cls = ""
          /\ pa_result[pa_tasks[i].svc] # pa_result[pa_tasks[j].svc]

\* C2: the keys of the mapping ping_all returns are exactly the services
\* that had a base URL when it was called, and a service with neither a
\* direct endpoint nor an identifier has no entry.
C2_KeysAreConfiguredServices ==
    pa_pc = "returned" =>
        /\ DOMAIN pa_result = pa_at_call
        /\ \A s \in Services :
              (endpoint[s] = None /\ endpoint_id[s] = None)
                 => s \notin DOMAIN pa_result

\* C2 witness: a returned mapping with a failed entry, a successful entry
\* and a service left out
C2_Witness ==
    /\ pa_pc = "returned"
    /\ \E s, t, u \in Services :
          /\ s \in DOMAIN pa_result /\ pa_result[s] = OkPayload
          /\ t \in DOMAIN pa_result /\ DOMAIN pa_result[t] = {"error"}
          /\ u \notin DOMAIN pa_result /\ endpoint_id[u] = None

\* C3 (as claimed): ping_all never ends by raising an exception to its caller.
C3_PingAllNeverRaises == pa_pc # "raised"

\* C4: once configure_<service>(new_id) has succeeded, the cached Transport
\* of that service and every call started through its facade target
\* https://{new_id}.api.runpod.ai, also when a Transport had been built for
\* the service before.
C4_CallsAfterConfigureUseNewUrl ==
    /\ \A s \in Services :
          (epoch[s] > 0 /\ client[s] # 0) =>
              built[s][client[s]].base_url
                 = << "https://" >> \o endpoint_id[s] \o << ".api.runpod.ai" >>
    /\ \A i \in TaskIds :
          LET t == pa_tasks[i] IN
          (t.ep > 0 /\ t.st # "created") =>
              t.url = << "https://" >> \o t.cfg \o << ".api.runpod.ai", "/ping" >>

\* C4 witness: a ping in flight on the second Transport of a service, built
\* after a reconfiguration that dropped a Transport with another base URL
C4_Witness ==
    \E i \in TaskIds :
        LET t == pa_tasks[i] IN
        /\ t.st = "sent"
        /\ t.ep > 0
        /\ t.tr = 2
        /\ built[t.svc][1].base_url \o << "/ping" >> # t.url

\* C5 (as claimed): in every reachable state needs_auth is true exactly when
\* an identifier is set and no direct endpoint was supplied.
C5_NeedsAuthIffManaged ==
    \A s \in Services :
        needs_auth[s] <=> (Truthy(endpoint_id[s]) /\ ~Truthy(endpoint[s]))

\* C6: at construction the base URL of every service is the direct endpoint
\* when one is given, https://{identifier}.api.runpod.ai when only an
\* identifier is given, and absent when neither is given.
C6_BaseUrlAtConstruction ==
    nconf = 0 =>
        \A s \in Services :
            base_url[s] =
                IF endpoint[s] # None THEN endpoint[s]
                ELSE IF endpoint_id[s] # None
                    THEN << "https://" >> \o endpoint_id[s] \o << ".api.runpod.ai" >>
                ELSE None

\* C6 witness: a constructed Orchestrator with all three cases, one of them
\* a service given both an endpoint and an identifier
C6_Witness ==
    /\ nconf = 0
    /\ \E s, t, u \in Services :
          /\ endpoint[s] # None /\ endpoint_id[s] # None /\ base_url[s] = endpoint[s]
          /\ endpoint[t] = None /\ endpoint_id[t] # None /\ base_url[t] # None
          /\ endpoint[u] = None /\ endpoint_id[u] = None /\ base_url[u] = None

\* the variant the Orchestrator is to build for service s
VariantFor(s) == IF needs_auth[s] THEN "auth" ELSE "local"

\* service s is Resolved: it has a base URL and no cached Transport
Resolved(s) == Truthy(base_url[s]) /\ client[s] = 0

\* C7: the first access to a Resolved service's facade builds the
\* Authenticated variant when needs_auth is true and the Unauthenticated one
\* otherwise; with needs_auth true and no API key it fails with
\* ValidationError, builds nothing and caches nothing.
C7_FirstAccessBuildsVariant ==
    /\ \A s \in Services : \A j \in 1..Len(built[s]) :
          built[s][j].variant = VariantFor(s)
    /\ \A s \in Services :
          Resolved(s) =>
              LET f == Facade(s, client, built) IN
              IF needs_auth[s] /\ ~Truthy(api_key)
                 THEN f.exc = "ValidationError" /\ f.client = client /\ f.built = built
                 ELSE /\ f.exc = ""
                      /\ f.client[s] = Len(built[s]) + 1
                      /\ Len(f.built[s]) = Len(built[s]) + 1
                      /\ f.built[s][f.client[s]].variant = VariantFor(s)

\* C7 witness: ping_all has built the Unauthenticated variant for one
\* service and then failed with ValidationError on a Resolved service that
\* needs authentication while no API key is configured
C7_Witness ==
    /\ pa_pc = "raised"
    /\ pa_exc = "ValidationError"
    /\ ~Truthy(api_key)
    /\ \E s, t \in Services :
          /\ client[s] # 0 /\ built[s][client[s]].variant = "local"
          /\ Resolved(t) /\ needs_auth[t]

\* the Transports built for service s are one per configuration epoch, and
\* the cached one is the latest, built in the current epoch
OnePerEpoch(s) ==
    /\ \A i, j \in 1..Len(built[s]) :
          built[s][i].epoch = built[s][j].epoch => i = j
    /\ client[s] # 0 =>
          client[s] = Len(built[s]) /\ built[s][client[s]].epoch = epoch[s]

\* C8: the constructor builds no Transport; a Transport is built only for a
\* service with nothing cached, one at a time, and is then the cached one;
\* an access to a service with a cached Transport returns it and builds
\* nothing; so no two Transports of a service belong to the same
\* configuration epoch.
C8_OneTransportPerEpoch ==
    /\ \A s \in Services : built[s] = << >> /\ client[s] = 0
    /\ [][\A s \in Services :
             /\ built'[s] # built[s] =>
                   /\ client[s] = 0
                   /\ built'[s] = Append(built[s], built'[s][Len(built'[s])])
                   /\ client'[s] = Len(built'[s])
             /\ client[s] # 0 =>
                   /\ Facade(s, client, built).exc = ""
                   /\ Facade(s, client, built).client = client
                   /\ Facade(s, client, built).built = built
             /\ OnePerEpoch(s)']_vars

\* C8 witness: a service whose Transport was built, dropped by a
\* reconfiguration and built again, both accesses having hit the cache since
C8_Witness ==
    \E s \in Services :
        /\ Len(built[s]) = 2
        /\ client[s] = 2
        /\ built[s][1].epoch = 0
        /\ built[s][2].epoch = 1

-----------------------------------------------------------------------------
(* Claims about the TTS client, checked under SpecTTS *)

\* the text has a character that is not whitespace
TextHasContent == \E i \in 1..Len(tts.text) : tts.text[i] \notin Whitespace

\* the number of HTTP requests that calls of op have issued
RequestsOf(op) ==
    Cardinality({ i \in 1..Len(tts.reqs) : tts.reqs[i].op = op })

\* the bytes of a sequence of chunks, in order
RECURSIVE InOrderBytes(_)
InOrderBytes(cs) ==
    IF Len(cs) = 0 THEN << >>
    ELSE InOrderBytes(SubSeq(cs, 1, Len(cs) - 1)) \o cs[Len(cs)]

B64Index(c) == CHOOSE n \in 0..63 : B64Alphabet[n + 1] = c

\* the bytes a base64 string stands for
RECURSIVE B64Decode(_)
B64Decode(c) ==
    IF Len(c) = 0 THEN << >>
    ELSE LET a == B64Index(c[1])
             b == B64Index(c[2])
         IN  IF c[3] = "=" THEN << a * 4 + b \div 16 >>
             ELSE IF c[4] = "="
                 THEN << a * 4 + b \div 16, (b % 16) * 16 + B64Index(c[3]) \div 4 >>
             ELSE << a * 4 + b \div 16,
                     (b % 16) * 16 + B64Index(c[3]) \div 4,
                     (B64Index(c[3]) % 4) * 64 + B64Index(c[4]) >>
                  \o B64Decode(SubSeq(c, 5, Len(c)))

\* C9: for a text with a non-whitespace character, synthesize issues exactly
\* one request (GET /tts), returns whenever the server answers 200 with a
\* finite chunk sequence, and the audio it returns, base64-decoded, is the
\* in-order concatenation of the chunks synthesize_stream yields for the
\* same arguments.
C9_SynthesizeIsJoinedStream ==
    TextHasContent =>
        /\ RequestsOf("synthesize") <= 1
        /\ tts.syn.state = "done" =>
              /\ RequestsOf("synthesize") = 1
              /\ tts.server.status = 200 => tts.syn.exc = ""
              /\ tts.syn.exc = "" => tts.syn.val.text = tts.text
        /\ (/\ tts.syn.state = "done" /\ tts.syn.exc = ""
            /\ tts.str.state = "done" /\ tts.str.exc = "")
              => B64Decode(tts.syn.val.audio) = InOrderBytes(tts.str.val)

\* C9 witness: against a server sending chunks of 10, 20 and 5 bytes,
\* synthesize_stream has yielded the three chunks and synthesize has
\* returned audio that decodes to 35 bytes
C9_Witness ==
    /\ TextHasContent
    /\ tts.server.chunks = Chunks10_20_5
    /\ tts.str.state = "done" /\ tts.str.exc = "" /\ Len(tts.str.val) = 3
    /\ tts.syn.state = "done" /\ tts.syn.exc = ""
    /\ Len(B64Decode(tts.syn.val.audio)) = 35

\* C10: for a text that is empty or only whitespace, on the authenticated
\* and on the local client, synthesize and (once its generator is first
\* advanced) synthesize_stream end with ValidationError, and no session is
\* ever created and no request ever issued.
C10_BlankTextFailsBeforeNetwork ==
    ~TextHasContent =>
        /\ tts.session = 0 /\ tts.sessions = << >>
        /\ tts.reqs = << >>
        /\ tts.call.pc \in {"idle", "created"}
        /\ tts.syn.state = "done" => tts.syn.exc = "ValidationError"
        /\ tts.str.state = "done" =>
              tts.str.exc = "ValidationError" /\ tts.str.val = << >>

\* C10 witness: both calls have ended on a whitespace-only text, on the
\* local client
C10_Witness ==
    /\ Len(tts.text) > 0
    /\ ~TextHasContent
    /\ tts.variant = "local"
    /\ tts.syn.state = "done" /\ tts.syn.exc = "ValidationError"
    /\ tts.str.state = "done" /\ tts.str.exc = "ValidationError"

-----------------------------------------------------------------------------
(* Claims about the STT client, checked under SpecSTT *)

\* the characters of the base64 alphabet
B64Chars == { B64Alphabet[n] : n \in 1..Len(B64Alphabet) }

\* the audio argument is a string with at least one character
AudioIsNonEmptyStr == stt.audio.type = "str" /\ Len(stt.audio.val) > 0

\* every character of the audio argument is whitespace
AudioIsBlank == \A i \in 1..Len(stt.audio.val) : stt.audio.val[i] \in Whitespace

\* a character of the audio argument is neither of the alphabet nor padding
AudioHasForeignChar ==
    \E i \in 1..Len(stt.audio.val) : stt.audio.val[i] \notin B64Chars \cup {"="}

\* the audio argument is groups of four characters of the alphabet, the last
\* group possibly ending in one or two padding characters
AudioIsPaddedB64 ==
    LET v == stt.audio.val
        n == Len(v)
    IN  /\ stt.audio.type = "str"
        /\ n > 0 /\ n % 4 = 0
        /\ \A i \in 1..(n - 2) : v[i] \in B64Chars
        /\ v[n] \in B64Chars \cup {"="}
        /\ v[n - 1] \in B64Chars \/ (v[n - 1] = "=" /\ v[n] = "=")

\* the client has created no session and sent no request
NoNetwork == stt.reqs = << >> /\ stt.sessions = << >> /\ stt.session = 0

\* the call, if it has ended, raised ValidationError with message m
EndsInvalid(m) ==
    stt.res.state = "done" =>
        stt.res.out.cls = "ValidationError" /\ stt.res.out.msg = << m >>

\* C11: transcribe checks its audio argument in the order non-empty string,
\* non-empty after trimming, decodable as strict base64; the first check that
\* fails raises ValidationError (with that check's message) and no session is
\* created and no request sent; an argument that passes is sent unchanged as
\* audio_base64 in exactly one POST /transcribe.
C11_TranscribeValidatesThenPosts ==
    (stt.pc = "on" /\ stt.style = "unified") =>
        /\ Len(stt.reqs) <= 1
        /\ \A i \in 1..Len(stt.reqs) :
              /\ stt.reqs[i].method = "POST"
              /\ stt.reqs[i].url = << "http://localhost:9002", "/transcribe" >>
              /\ stt.reqs[i].json["audio_base64"] = stt.audio.val
        /\ (stt.res.state = "done" /\ stt.res.out.cls = "ValidationError")
              => NoNetwork
        /\ ~AudioIsNonEmptyStr =>
              /\ NoNetwork /\ stt.call = "idle"
              /\ EndsInvalid("audio_base64 must be a non-empty string")
        /\ (AudioIsNonEmptyStr /\ AudioIsBlank) =>
              /\ NoNetwork /\ stt.call = "idle"
              /\ EndsInvalid("audio_base64 cannot be empty or whitespace only")
        /\ (AudioIsNonEmptyStr /\ ~AudioIsBlank /\ AudioHasForeignChar) =>
              /\ NoNetwork /\ stt.call = "idle"
              /\ EndsInvalid("audio_base64 must be valid base64 encoded data")
        /\ (AudioIsPaddedB64 /\ stt.res.state = "done") =>
              /\ stt.res.out.cls # "ValidationError"
              /\ Len(stt.reqs) = 1

\* C11 witness: transcribe was called with the base64 of "Hi!", sent it as
\* given in one POST /transcribe and returned the server's payload
C11_Witness ==
    /\ stt.pc = "on" /\ stt.style = "unified"
    /\ stt.audio = [type |-> "str", val |-> << "S", "G", "k", "h" >>]
    /\ stt.res.state = "done" /\ stt.res.out.cls = ""
    /\ Len(stt.reqs) = 1
    /\ stt.reqs[1].json["audio_base64"] = << "S", "G", "k", "h" >>

\* the sampleRate argument is an integer above zero
RateIsPositiveInt == stt.rate.type = "int" /\ stt.rate.val > 0

\* C12: a Wolof-style transcription call with a sampleRate that is not an
\* integer or is not positive raises ValidationError and sends nothing; with
\* a valid sampleRate every request it sends has the value as sample_rate in
\* its body, and a well-formed audio argument is sent in one request.
C12_SampleRateValidatedAndSent ==
    (stt.pc = "on" /\ stt.style = "wolof") =>
        /\ ~RateIsPositiveInt =>
              /\ NoNetwork /\ stt.call = "idle"
              /\ stt.res.state = "done" => stt.res.out.cls = "ValidationError"
        /\ RateIsPositiveInt =>
              \A i \in 1..Len(stt.reqs) :
                  /\ "sample_rate" \in DOMAIN stt.reqs[i].json
                  /\ stt.reqs[i].json["sample_rate"] = stt.rate.val
                  /\ stt.reqs[i].json["audio_base64"] = stt.audio.val
        /\ (RateIsPositiveInt /\ AudioIsPaddedB64 /\ stt.res.state = "done") =>
              Len(stt.reqs) = 1

\* C12 witness: a Wolof-style call with well-formed audio and sampleRate 0
\* has ended with ValidationError
C12_Witness ==
    /\ stt.pc = "on" /\ stt.style = "wolof"
    /\ AudioIsPaddedB64
    /\ stt.rate = [type |-> "int", val |-> 0]
    /\ stt.res.state = "done" /\ stt.res.out.cls = "ValidationError"

-----------------------------------------------------------------------------
(* Claims about one Transport, checked under SpecTransport *)

\* the calls made so far
CallIds == 1..Len(tr.calls)

\* call i has ended and its exchange brought a complete answer
Answered(i) == tr.calls[i].st = "done" /\ tr.calls[i].r.fault = ""

\* the sequence x occurs in the sequence m
Includes(m, x) ==
    \E k \in 0..(Len(m) - Len(x)) : SubSeq(m, k + 1, k + Len(x)) = x

\* C13: a buffered request answered with HTTP 401 fails with
\* AuthenticationError on the Authenticated Transport, and on the
\* Unauthenticated Transport with APIError carrying status 401.
C13_Status401ByVariant ==
    tr.pc = "on" =>
        \A i \in CallIds :
            (Answered(i) /\ tr.calls[i].r.status = 401) =>
                IF tr.variant = "auth"
                    THEN tr.calls[i].out.cls = "AuthenticationError"
                    ELSE /\ tr.calls[i].out.cls = "APIError"
                         /\ tr.calls[i].out.status = 401

\* C14: every answer with status >= 400 (401 on the Authenticated variant
\* aside), whatever its body, makes the call fail with APIError whose status
\* is the HTTP status; the message is the error field of a JSON object that
\* has one, and includes the raw text of a body that is not JSON.
C14_ErrorStatusIsAPIError ==
    tr.pc = "on" =>
        \A i \in CallIds :
            (/\ Answered(i)
             /\ tr.calls[i].r.status >= 400
             /\ ~(tr.variant = "auth" /\ tr.calls[i].r.status = 401)) =>
                LET c == tr.calls[i] IN
                /\ c.out.cls = "APIError"
                /\ c.out.status = c.r.status
                /\ (c.r.json = "object" /\ "error" \in DOMAIN c.r.obj)
                      => c.out.msg = c.r.obj.error
                /\ c.r.json = "invalid" => Includes(c.out.msg, c.r.text)

\* C15: every answer with status below 400 makes the call return: the decoded
\* value of a JSON body, and {"response": <raw text>} for any other body.
C15_SuccessNeverFailsOnBody ==
    tr.pc = "on" =>
        \A i \in CallIds :
            (Answered(i) /\ tr.calls[i].r.status < 400) =>
                LET c == tr.calls[i] IN
                /\ c.out.cls = ""
                /\ c.r.json # "invalid" => c.out.val = c.r.obj
                /\ c.r.json = "invalid" => c.out.val = [response |-> c.r.text]

\* call i has ended on a fault of its exchange.  A fault while the body is
\* read cannot happen after a 401 on the Authenticated variant, which raises
\* on the status and never reads the body.
Faulted(i) ==
    /\ tr.calls[i].st = "done"
    /\ tr.calls[i].r.fault # ""
    /\ tr.calls[i].r.phase = "body" => ~(tr.variant = "auth" /\ tr.calls[i].r.status = 401)

\* C16: a fault of the exchange is classified by its cause: a timeout gives
\* ConnectionError naming the Transport's timeout, a connect-level failure
\* ConnectionError with the cause in its message, any other client failure
\* APIError; two calls failing of the same cause, one before the headers and
\* one while the body is read, end with the same error.
C16_FaultClassifiedByCause ==
    tr.pc = "on" =>
        /\ \A i \in CallIds :
              Faulted(i) =>
                  LET c == tr.calls[i] IN
                  /\ c.r.fault = "timeout" =>
                        /\ c.out.cls = "ConnectionError"
                        /\ Includes(c.out.msg, << ToString(tr.timeout) >>)
                  /\ c.r.fault = "connect" =>
                        /\ c.out.cls = "ConnectionError"
                        /\ Includes(c.out.msg, << c.r.cause >>)
                  /\ c.r.fault = "client" =>
                        /\ c.out.cls = "APIError"
                        /\ Includes(c.out.msg, << c.r.cause >>)
        /\ \A i, j \in CallIds :
              (Faulted(i) /\ Faulted(j) /\ tr.calls[i].r.fault = tr.calls[j].r.fault)
                  => tr.calls[i].out = tr.calls[j].out

\* C16 witness: on a Transport with timeout 60, one call timed out before the
\* headers and another while reading the body of a 200 answer; both ended
\* with ConnectionError
C16_Witness ==
    /\ tr.pc = "on" /\ tr.timeout = 60 /\ Len(tr.calls) = 2
    /\ Faulted(1) /\ tr.calls[1].r.fault = "timeout" /\ tr.calls[1].r.phase = "head"
    /\ Faulted(2) /\ tr.calls[2].r.fault = "timeout" /\ tr.calls[2].r.phase = "body"
    /\ tr.calls[2].r.status = 200
    /\ tr.calls[1].out.cls = "ConnectionError"
    /\ tr.calls[2].out.cls = "ConnectionError"

\* the sessions of the Transport that are open
OpenSessions == { k \in 1..Len(tr.sessions) : tr.sessions[k] = "open" }

\* C17: whatever the interleaving of calls and close(), the Transport has at
\* most one open session; no session exists before the first request, the
\* first request creates one, and a request made while the Transport's session
\* is open is sent on that session and creates none.
C17_AtMostOneLiveSession ==
    tr.pc = "on" =>
        /\ Cardinality(OpenSessions) <= 1
        /\ Len(tr.calls) = 0 => (tr.sessions = << >> /\ tr.session = 0)
        /\ Len(tr.calls) > 0 => (tr.calls[1].prev = 0 /\ tr.calls[1].sess = 1)
        /\ Len(tr.sessions) <= Len(tr.calls)
        /\ \A i \in CallIds :
              tr.calls[i].prev_open => tr.calls[i].sess = tr.calls[i].prev

\* C17 witness: two calls are in flight at once, both on the one session
C17_Witness ==
    /\ tr.pc = "on" /\ Len(tr.calls) = 2
    /\ tr.calls[1].st = "sent" /\ tr.calls[2].st = "sent"
    /\ tr.calls[1].sess = 1 /\ tr.calls[2].sess = 1
    /\ tr.sessions = << "open" >>

\* C18: every request is sent on a session that is open when it is sent; a
\* request made after close() released the session is sent on a session
\* created for it, which no earlier request used, and it returns the payload
\* of a 200 answer as any other call does.
C18_RequestAfterCloseGetsFreshSession ==
    tr.pc = "on" =>
        \A i \in CallIds :
            LET c == tr.calls[i] IN
            /\ c.live
            /\ (c.prev # 0 /\ ~c.prev_open) =>
                  /\ c.sess > c.prev
                  /\ \A j \in 1..(i - 1) : tr.calls[j].sess # c.sess
                  /\ (Answered(i) /\ c.r.status = 200 /\ c.r.json = "object"
                        /\ c.r.ctype = "application/json")
                        => (c.out.cls = "" /\ c.out.val = c.r.obj)

\* C18 witness: after a first call and close(), a second call was sent on a
\* second session and returned the payload
C18_Witness ==
    /\ tr.pc = "on" /\ Len(tr.calls) = 2
    /\ tr.calls[2].prev = 1 /\ ~tr.calls[2].prev_open
    /\ tr.calls[2].sess = 2
    /\ Answered(2) /\ tr.calls[2].out.cls = "" /\ tr.calls[2].out.val = OkPayload
    /\ tr.sessions = << "closed", "open" >>

-----------------------------------------------------------------------------
(* Claims about the Orchestrator's scope and close(), checked under SpecScope *)

\* the services that have a cached Transport
BoundServices == { s \in Services : client[s] # 0 }

\* the Transport i of service s has an open session
HasOpenSession(s, i) ==
    \E k \in 1..Len(sc.sess[s][i].sessions) : sc.sess[s][i].sessions[k] = "open"

\* C19: once an async with block over the Orchestrator has been left, on any
\* path, and no release raised, every session opened by a Transport of the
\* Orchestrator is closed.
C19_ScopeExitClosesEverySession ==
    (sc.pc = "exited" /\ sc.failed = {}) =>
        \A s \in Services : \A i \in 1..Len(sc.sess[s]) : ~HasOpenSession(s, i)

\* C20: when close() has ended, it has not raised, the close() of every
\* cached Transport was attempted, and every cached Transport whose release
\* did not fail has no open session, also when the release of another failed.
C20_CloseIsBestEffort ==
    sc.pc = "exited" =>
        /\ sc.close_exc = ""
        /\ sc.attempted = BoundServices
        /\ sc.failed \subseteq BoundServices
        /\ \A s \in BoundServices \ sc.failed :
              client[s] <= Len(sc.sess[s]) /\ ~HasOpenSession(s, client[s])

\* C20 witness: close() ended with the release of one Transport failed and
\* the session of another, later in the order of the services, released
C20_Witness ==
    /\ sc.pc = "exited" /\ sc.close_exc = ""
    /\ \E s, u \in BoundServices :
          /\ s \in sc.failed /\ u \notin sc.failed
          /\ \E i, j \in 1..Len(ServiceOrder) :
                i < j /\ ServiceOrder[i] = s /\ ServiceOrder[j] = u
          /\ sc.sess[u][client[u]].sessions = << "closed" >>

-----------------------------------------------------------------------------
(* Claims about streaming and concurrent calls, checked under SpecStream *)

\* the calls that are a synthesis (synthesize or synthesize_stream)
Syntheses == { i \in Calls : sm.calls[i].op # "ping" }

NonEmptyChunk(c) == Len(c) > 0

\* the non-empty chunks among cs, in their order
NonEmptyOf(cs) == SelectSeq(cs, NonEmptyChunk)

\* the requests sent for calls of kind op
SentFor(op) == { j \in 1..Len(sm.reqs) : sm.reqs[j].op = op }

\* C21: within one streaming call the chunks yielded are, at every moment,
\* the non-empty chunks read from the body so far, in arrival order (none
\* reordered, duplicated or dropped, no empty chunk yielded); the generator
\* that ended returns exactly them, and advancing it once more yields
\* nothing and sends nothing.
C21_YieldedIsNonEmptyArrived ==
    \A i \in Syntheses :
        LET c == sm.calls[i] IN
        /\ c.yielded = NonEmptyOf(c.arrived)
        /\ \A k \in 1..Len(c.yielded) : Len(c.yielded[k]) > 0
        /\ (c.op = "synthesize_stream" /\ c.pc = "done" /\ c.out.cls = "")
              => c.out.val = NonEmptyOf(c.arrived)
        /\ c.again =>
              /\ c.pc = "done"
              /\ Cardinality(SentFor("synthesize_stream")) <= 1

\* C21 witness: a stream whose body had an empty chunk, or two different
\* non-empty chunks, has ended and was advanced once more
C21_Witness ==
    \E i \in Syntheses :
        LET c == sm.calls[i] IN
        /\ c.op = "synthesize_stream" /\ c.pc = "done" /\ c.again
        /\ c.arrived = << << 2 >>, << 1 >> >>
        /\ c.out.cls = ""

\* C22 (as claimed): once the consumer of a streaming call has left its loop
\* before the end of the sequence, the HTTP response is released.
C22_AbandonedStreamIsReleased ==
    \A i \in Syntheses :
        sm.calls[i].pc = "abandoned" => sm.calls[i].conn = "released"

\* C23: a fault after the body began is raised as ConnectionError or
\* APIError and the call does not end normally; synthesize returns only when
\* the body reached its end, with the audio of every non-empty chunk.
C23_MidStreamFaultIsRaised ==
    \A i \in Syntheses :
        LET c == sm.calls[i] IN
        /\ c.end \in FaultKinds =>
              /\ c.pc = "done"
              /\ c.out.cls \in {"ConnectionError", "APIError"}
        /\ (c.op = "synthesize" /\ c.pc = "done" /\ c.out.cls = "") =>
              /\ c.end = "eof"
              /\ c.out.val.audio = B64Encode(Join(NonEmptyOf(c.arrived)))

\* C23 witness: synthesize failed on a timeout after a chunk was collected
C23_Witness ==
    \E i \in Syntheses :
        LET c == sm.calls[i] IN
        /\ c.op = "synthesize" /\ c.end = "timeout"
        /\ Len(c.yielded) >= 1
        /\ c.out.cls = "ConnectionError"

\* the outcome the call c has when it is the only call of the client
Alone(c) ==
    IF c.op = "ping" THEN MakeRequest(sm, c.r)
    ELSE IF c.end = "" THEN StreamHead(sm, c.r)
    ELSE IF c.end \in FaultKinds
        THEN ClassifyFault(sm, Fault(c.end, "body", "cause", 200))
    ELSE IF c.op = "synthesize"
        THEN Return(SynthesizeReturn(sm, NonEmptyOf(c.arrived)))
    ELSE Return(NonEmptyOf(c.arrived))

SameOutcome(a, b) ==
    /\ a.cls = b.cls
    /\ a.msg = b.msg
    /\ a.status = b.status
    /\ a.cls = "" => a.val = b.val

\* the call c ended on a timeout: at connect or header wait, or between chunks
TimedOut(c) ==
    /\ c.pc = "done"
    /\ \/ c.r.fault = "timeout"
       \/ c.end = "timeout"

\* C24: with several calls in flight on one client, a call that times out
\* fails with ConnectionError, and every call, whatever happened to the
\* others, is pending while in flight and ends with the outcome it has alone.
C24_TimeoutFailsThatCallOnly ==
    \A i \in Calls :
        LET c == sm.calls[i] IN
        /\ TimedOut(c) => c.out.cls = "ConnectionError"
        /\ c.pc = "done" => SameOutcome(c.out, Alone(c))
        /\ c.pc # "done" => c.out = Pending

\* C24 witness: the synthesis timed out between two chunks while an older
\* ping was, and still is, in flight
C24_Witness ==
    \E i \in Syntheses, j \in Calls :
        /\ j < i
        /\ sm.calls[i].end = "timeout" /\ Len(sm.calls[i].arrived) >= 1
        /\ sm.calls[j].pc = "head" /\ sm.calls[j].conn = "held"

\* C25: every call has sent at most one HTTP request, one exactly once it
\* has started, also after it failed.
C25_OneRequestPerCall ==
    /\ Len(sm.reqs) = Cardinality({ i \in Calls : sm.calls[i].pc # "created" })
    /\ Cardinality(SentFor("ping")) = Cardinality(Calls \ Syntheses)
    /\ \A op \in {"synthesize", "synthesize_stream"} :
          Cardinality(SentFor(op)) =
             Cardinality({ i \in Syntheses : /\ sm.calls[i].op = op
                                             /\ sm.calls[i].pc # "created" })

\* C25 witness: a ping failed on a connection error, and the synthesis on an
\* HTTP error status
C25_Witness ==
    /\ \E i \in Calls \ Syntheses : sm.calls[i].out.cls = "ConnectionError"
    /\ \E i \in Syntheses : /\ sm.calls[i].out.cls = "APIError"
                            /\ sm.calls[i].out.status = 500

\* C28 (as claimed): on either variant, a streaming call that fails on its
\* initial response fails as execute does on the same response; a local
\* client answered 401 gets APIError with status 401.
C28_StreamHeadClassifiedAsExecute ==
    \A i \in Syntheses :
        LET c == sm.calls[i] IN
        (c.pc = "done" /\ c.end = "") => SameOutcome(c.out, MakeRequest(sm, c.r))

\* C29 (as claimed): every APIError a call raises carries a numeric HTTP
\* status.
C29_APIErrorHasStatus ==
    \A i \in Calls :
        sm.calls[i].out.cls = "APIError" => sm.calls[i].out.status # NoStatus

\* the five kinds of failure of exceptions.py
Taxonomy ==
    { "AuthenticationError", "APIError", "ConnectionError", "ValidationError",
      "ConfigurationError" }

\* C30 (as claimed): every failure a call surfaces is of one of the taxonomy
\* kinds.
C30_FailuresAreClassified ==
    \A i \in Calls :
        LET c == sm.calls[i] IN
        (c.pc = "done" /\ c.out.cls # "") => c.out.cls \in Taxonomy

-----------------------------------------------------------------------------
(* Claim about the ping_all scenario, checked under SpecPingScenario *)

\* ping_all began on the configuration of the scenario: tts_fr and stt_fr
\* were the services with a base URL and neither had been reconfigured
ScenarioAtCall ==
    /\ pa_pc \in {"gathering", "returned", "raised"}
    /\ pa_at_call = {"tts_fr", "stt_fr"}
    /\ \A i \in TaskIds : pa_tasks[i].ep = 0

-----------------------------------------------------------------------------
(* Claim about reconfiguration with calls in flight, checked under SpecReconf *)

\* C27: a call that was in flight when configure_<service> was invoked keeps
\* its session open while it is in flight, keeps the target it started with
\* and ends with the outcome its exchange has on the Transport it started on;
\* a call started after a reconfiguration targets the identifier it was
\* configured with.
C27_InFlightCallsSurviveConfigure ==
    \A i \in 1..Len(rc.calls) :
        LET c == rc.calls[i]
            old == built[c.svc][c.tr]
        IN  /\ old.epoch = c.ep
            /\ c.url = old.base_url \o << "/ping" >>
            /\ c.st = "sent" =>
                  SessOf(rc.sess, c.svc, c.tr).sessions[c.sess] = "open"
            /\ c.st = "done" => c.out = MakeRequest(old, c.r)
            /\ c.reconf =>
                  /\ c.ep < epoch[c.svc]
                  /\ client[c.svc] # c.tr
            /\ (c.ep > 0 /\ c.ep = epoch[c.svc]) =>
                  c.url = << "https://" >> \o endpoint_id[c.svc]
                             \o << ".api.runpod.ai", "/ping" >>

\* C27 witness: a call that was in flight across a configure_<service> has
\* succeeded on its old target while a later call of the same service is in
\* flight on the new one
C27_Witness ==
    \E i, j \in 1..Len(rc.calls) :
        /\ rc.calls[i].reconf
        /\ rc.calls[i].st = "done" /\ rc.calls[i].out.cls = ""
        /\ rc.calls[j].svc = rc.calls[i].svc
        /\ rc.calls[j].ep > rc.calls[i].ep
        /\ rc.calls[j].st = "sent"
        /\ rc.calls[j].url # rc.calls[i].url

-----------------------------------------------------------------------------
(* Further claims about the Orchestrator, checked under Spec *)

\* the base URL u has the managed pattern https://{identifier}.api.runpod.ai
IsManagedUrl(u) ==
    /\ Len(u) = 3
    /\ u[1] = "https://"
    /\ u[3] = ".api.runpod.ai"

\* C31 (as claimed): every Transport whose base URL has the managed pattern
\* is the Authenticated variant, and every request sent to a managed
\* endpoint carries the bearer credential.
C31_ManagedTransportIsAuthenticated ==
    /\ \A s \in Services : \A j \in 1..Len(built[s]) :
          IsManagedUrl(built[s][j].base_url) => built[s][j].variant = "auth"
    /\ \A i \in TaskIds :
          (pa_tasks[i].st # "created" /\ IsManagedUrl(built[pa_tasks[i].svc][pa_tasks[i].tr].base_url))
              => "Authorization" \in DOMAIN pa_tasks[i].headers

-----------------------------------------------------------------------------
(* Claims about ping_all's mapping, checked under SpecPingOrder *)

\* C32 (as claimed): in the mapping ping_all returns, a service's entry is
\* recognisable as an error (it has the key "error", which is what callers
\* test) exactly when that service's ping failed, also when a successful
\* ping's payload has an "error" field of its own.
C32_ErrorEntryIffPingFailed ==
    AllPingsCompleted =>
        \A i \in TaskIds :
            ("error" \in DOMAIN pa_result[pa_tasks[i].svc])
                <=> (i \in FailedPings)

\* C33: whatever the order in which the pings complete, the entry stored
\* under a service's name is the outcome of the ping sent to the base URL of
\* that service's own Transport, never the outcome of another service's ping.
C33_EntryIsOwnPingOutcome ==
    AllPingsCompleted =>
        /\ { po[k] : k \in 1..Len(po) } = TaskIds
        /\ \A i \in TaskIds :
              LET t == pa_tasks[i] IN
              /\ t.url = built[t.svc][t.tr].base_url \o << "/ping" >>
              /\ built[t.svc][t.tr].epoch = t.ep
              /\ pa_result[t.svc] = ResultEntry(t.out)
              /\ (t.out.cls = "" /\ "endpoint" \in DOMAIN t.out.val)
                    => pa_result[t.svc].endpoint = t.url

\* C33 witness: ping_all has returned after its pings completed in another
\* order than they were issued, with answers that differ between services
C33_Witness ==
    /\ AllPingsCompleted
    /\ Len(pa_tasks) = 3
    /\ po = << 3, 1, 2 >>
    /\ \A i \in TaskIds : pa_tasks[i].out.cls = ""
    /\ \A i, j \in TaskIds :
          i # j => pa_result[pa_tasks[i].svc] # pa_result[pa_tasks[j].svc]

-----------------------------------------------------------------------------
(* A further claim about the TTS client, checked under SpecTTS *)

\* C34 (as claimed): every GET /tts a synthesis sends has the query
\* parameters prompt = the text, voice and format of the call; the extra
\* keyword arguments only add keys and never replace these three.
C34_QueryKeepsPromptVoiceFormat ==
    tts.pc = "on" =>
        \A i \in 1..Len(tts.reqs) :
            LET q == tts.reqs[i].params IN
            /\ tts.reqs[i].method = "GET"
            /\ tts.reqs[i].url = tts.base_url \o << "/tts" >>
            /\ DOMAIN q = {"prompt", "voice", "format"} \cup DOMAIN tts.kwargs
            /\ q["prompt"] = tts.text
            /\ q["voice"] = tts.voice
            /\ q["format"] = tts.format
            /\ \A k \in DOMAIN tts.kwargs \ {"prompt", "voice", "format"} :
                  q[k] = tts.kwargs[k]

-----------------------------------------------------------------------------
(* A further claim about the scoped Orchestrator, checked under SpecScope *)

\* C35 (as claimed): once close() has completed, no session of any Transport
\* the Orchestrator ever constructed is still open, a Transport that a
\* configure_<service> dropped included; only a cached Transport whose own
\* release raised may be left as it was.
C35_CloseReleasesEveryTransport ==
    sc.pc = "exited" =>
        \A s \in Services : \A i \in 1..Len(sc.sess[s]) :
            (i # client[s] \/ s \notin sc.failed) => ~HasOpenSession(s, i)

-----------------------------------------------------------------------------
(* Further claims about configure_<service>, checked under SpecReconf *)

\* C36: a configure_<service> that succeeds leaves every other service's
\* identifier, direct endpoint, base URL, requiresAuth flag and cached
\* Transport as they were, constructs and alters no Transport, and leaves the
\* credential unchanged; the timeout every Transport was built with is the
\* Orchestrator's.
C36_ConfigureLeavesOtherServices ==
    [][ (nconf' = nconf + 1) =>
           /\ api_key' = api_key
           /\ built' = built
           /\ \A u \in Services : \A j \in 1..Len(built'[u]) :
                 built'[u][j].timeout = DefaultTimeout
           /\ \E s \in Services :
                 /\ epoch'[s] = epoch[s] + 1
                 /\ client'[s] = 0
                 /\ \A u \in Services \ {s} :
                       /\ endpoint_id'[u] = endpoint_id[u]
                       /\ endpoint'[u] = endpoint[u]
                       /\ base_url'[u] = base_url[u]
                       /\ needs_auth'[u] = needs_auth[u]
                       /\ client'[u] = client[u]
                       /\ epoch'[u] = epoch[u] ]_vars

\* C36 witness: a service has been reconfigured while another one keeps the
\* Transport it had cached, with a call still in flight on it
C36_Witness ==
    /\ rc.pc = "on"
    /\ \E s, u \in Services :
          /\ s # u
          /\ epoch[s] > 0 /\ client[s] = 0 /\ Len(built[s]) > 0
          /\ epoch[u] = 0 /\ client[u] = 1
          /\ base_url[u] = endpoint[u]
          /\ \E i \in 1..Len(rc.calls) :
                rc.calls[i].svc = u /\ rc.calls[i].st = "sent"

\* a configure_<service> with the identifier id is rejected and would leave
\* the service's fields as they are
Rejected(s, id) ==
    LET c == ConfigureResult(s, id) IN
    /\ c.exc = "ValidationError"
    /\ c.endpoint_id = endpoint_id[s]
    /\ c.base_url = base_url[s]
    /\ c.client = client[s]

\* C37: configure_<service> with an empty identifier fails with a
\* ValidationError, in every state and for every service, and changes
\* nothing: a step that is not a successful configure, a rejected configure
\* among them, leaves every identifier, base URL, requiresAuth flag and the
\* credential as they were and drops no cached Transport.
C37_EmptyIdentifierChangesNothing ==
    [][ /\ \A s \in Services : Rejected(s, EmptyStr) /\ Rejected(s, None)
        /\ (nconf' = nconf) =>
              /\ endpoint_id' = endpoint_id
              /\ endpoint' = endpoint
              /\ base_url' = base_url
              /\ needs_auth' = needs_auth
              /\ api_key' = api_key
              /\ epoch' = epoch
              /\ \A s \in Services : client[s] # 0 => client'[s] = client[s]
              /\ \A s \in Services :
                    SubSeq(built'[s], 1, Len(built[s])) = built[s] ]_vars

\* C37 witness: a service with an identifier, a cached Transport and a call
\* in flight on it, on which an empty identifier is rejected
C37_Witness ==
    /\ rc.pc = "on"
    /\ \E s \in Services :
          /\ endpoint_id[s] # None
          /\ client[s] # 0
          /\ Rejected(s, EmptyStr)
          /\ \E i \in 1..Len(rc.calls) :
                rc.calls[i].svc = s /\ rc.calls[i].st = "sent"

-----------------------------------------------------------------------------
(* A further claim about the facades, checked under Spec *)

\* the service s has neither a direct endpoint nor an identifier
Unconfigured(s) == ~Truthy(base_url[s])

\* C38: reading the facade of an Unconfigured service fails with a
\* ValidationError, in every state and so on every access; it constructs no
\* Transport and leaves the Orchestrator as it is, no Transport of the
\* service exists and no ping is sent for it; a service that was
\* Unconfigured at construction has a Transport only after a successful
\* configure_<service>.
C38_UnconfiguredFacadeFails ==
    \A s \in Services :
        /\ Unconfigured(s) =>
              LET f == Facade(s, client, built) IN
              /\ f.exc = "ValidationError"
              /\ f.client = client
              /\ f.built = built
              /\ client[s] = 0
              /\ built[s] = << >>
              /\ epoch[s] = 0
              /\ \A i \in TaskIds : pa_tasks[i].svc # s
        /\ (built[s] # << >> /\ endpoint[s] = None /\ epoch[s] = 0)
              => endpoint_id[s] # None

\* C38 witness: ping_all has returned with pings sent while one service is
\* Unconfigured, and another service, without direct endpoint, got its
\* Transport after a configure_<service>
C38_Witness ==
    /\ pa_pc = "returned"
    /\ Len(pa_tasks) > 0
    /\ \E s, u \in Services :
          /\ Unconfigured(s)
          /\ Facade(s, client, built).exc = "ValidationError"
          /\ endpoint[u] = None /\ epoch[u] > 0 /\ client[u] # 0
          /\ built[u][client[u]].epoch = epoch[u]

====
